---- MODULE Spec2Model ----
(***************************************************************************)
(* Verification model of the SmartNOTAM3 pipeline:                         *)
(*   - FIRIdentifier.analyze_upr_route  (backup/fir_analysis_backup)       *)
(*   - NOTAMFilter bulletin segmentation, airport and package variants     *)
(*   - FIRNotamFilter.analyze_route_with_fir_notams                        *)
(*   - the worker-pool translation entry points                            *)
(*   - time-zone resolution and NOTAM time parsing and formatting          *)
(*   - the package airport order across uploads                            *)
(*   - UPRParser.parse_route_with_waypoints                                *)
(* Coordinates are integers in arc-seconds (degrees * 3600).               *)
(***************************************************************************)
EXTENDS Integers, Sequences, FiniteSets, TLC

\* ------------------------------------------------------------------ bounds
MaxRoute == 3
MaxLines == 3
MaxNotams == 2
MaxWaypoints == 2
MaxRequests == 2
MaxBatch == 2
MaxCalls == 2
MaxSize == 2

\* ------------------------------------------------------- generic helpers
NONE == "NONE"

Range(s) == { s[i] : i \in 1..Len(s) }

SeqsUpTo(S, n) == UNION { [1..k -> S] : k \in 0..n }

RECURSIVE SeqMin(_)
SeqMin(s) ==
    IF Len(s) = 1 THEN s[1]
    ELSE LET m == SeqMin(Tail(s)) IN IF s[1] < m THEN s[1] ELSE m

RECURSIVE SeqMax(_)
SeqMax(s) ==
    IF Len(s) = 1 THEN s[1]
    ELSE LET m == SeqMax(Tail(s)) IN IF s[1] > m THEN s[1] ELSE m

\* ============================================================ FIR boundaries
\* Vertex lists <<lat, lon>> of the embedded boundary tables, in arc-seconds.
PAZA_boundary ==
    << <<196809, 612000>>, <<185400, 612000>>, <<183900, 625440>>, <<180480, -635640>>, <<164520, 586500>>, <<180300, 572400>>, <<194400, 608400>>, <<196809, 612000>> >>

KZAK_boundary ==
    << <<189780, -486000>>, <<183600, -481500>>, <<174000, -460800>>, <<162000, -455400>>, <<147540, -456840>>, <<147000, -457200>>, <<135023, -457200>>, <<131263, -456960>>, <<127800, -453000>>, <<129600, -447120>>, <<124200, -443700>>, <<110700, -435000>>, <<108000, -432000>>, <<12600, -432000>>, <<12600, -522000>>, <<-18000, -558000>>, <<-18000, 648000>>, <<12600, 648000>>, <<12600, 576000>>, <<0, 576000>>, <<0, 507600>>, <<12600, 507600>>, <<12600, 478800>>, <<25200, 468000>>, <<75600, 468000>>, <<75600, 558000>>, <<97200, 558000>>, <<97200, 594000>>, <<154800, 594000>>, <<164520, 586500>>, <<180480, -635640>>, <<185040, -604140>>, <<192600, -576000>>, <<201600, -550800>>, <<204342, -546300>>, <<192123, -493200>>, <<189780, -486000>> >>

RJJJ_boundary ==
    << <<164520, 586500>>, <<154800, 594000>>, <<97200, 594000>>, <<97200, 558000>>, <<75600, 558000>>, <<75600, 437400>>, <<145800, 481140>>, <<139080, 481140>>, <<136800, 478800>>, <<135000, 478800>>, <<124800, 465000>>, <<117000, 461880>>, <<108000, 451500>>, <<95100, 442800>>, <<84600, 442800>>, <<75600, 437400>> >>

NZZO_boundary ==
    << <<-108000, -471600>>, <<-324000, 0>>, <<-108000, 586800>>, <<-100800, 604800>>, <<-90000, 617100>>, <<-90000, 648000>>, <<-18000, -615600>>, <<-18000, -565200>>, <<-108000, -565200>>, <<-108000, -471600>> >>

AYPM_boundary ==
    << <<0, 576000>>, <<-17400, 576000>>, <<-17400, 572400>>, <<-43200, 558000>>, <<-43200, 518400>>, <<0, 507600>>, <<0, 576000>> >>

\* The boundary dictionary in insertion order (Python dicts iterate in it).
FirOrder == << "PAZA", "KZAK", "RJJJ", "NZZO", "AYPM" >>

fir_boundaries ==
    [ f \in Range(FirOrder) |->
        CASE f = "PAZA" -> PAZA_boundary
          [] f = "KZAK" -> KZAK_boundary
          [] f = "RJJJ" -> RJJJ_boundary
          [] f = "NZZO" -> NZZO_boundary
          [] f = "AYPM" -> AYPM_boundary ]

Lats(boundary) == [ i \in 1..Len(boundary) |-> boundary[i][1] ]
Lons(boundary) == [ i \in 1..Len(boundary) |-> boundary[i][2] ]

\* The box test without the date-line branch.
IsPointInFirBoundaryBoxMut(point, boundary) ==
    /\ SeqMin(Lats(boundary)) <= point[1] /\ point[1] <= SeqMax(Lats(boundary))
    /\ SeqMin(Lons(boundary)) <= point[2] /\ point[2] <= SeqMax(Lons(boundary))

\* FIRIdentifier._is_point_in_fir_boundary_box
IsPointInFirBoundaryBox(point, boundary) ==
    LET lat == point[1]
        lon == point[2]
        min_lat == SeqMin(Lats(boundary))
        max_lat == SeqMax(Lats(boundary))
        min_lon == SeqMin(Lons(boundary))
        max_lon == SeqMax(Lons(boundary))
    IN  IF min_lon < 0 /\ max_lon > 0
        THEN /\ min_lat <= lat /\ lat <= max_lat
             /\ \/ (min_lon <= lon /\ lon <= 648000)
                \/ (-648000 <= lon /\ lon <= max_lon)
        ELSE /\ min_lat <= lat /\ lat <= max_lat
             /\ min_lon <= lon /\ lon <= max_lon

\* FIRIdentifier.identify_fir_by_coordinate: first FIR in dictionary order
\* whose bounding box accepts the point, else None.
RECURSIVE FirstFirFrom(_, _)
FirstFirFrom(k, point) ==
    IF k > Len(FirOrder) THEN NONE
    ELSE IF IsPointInFirBoundaryBox(point, fir_boundaries[FirOrder[k]])
         THEN FirOrder[k]
         ELSE FirstFirFrom(k + 1, point)

identify_fir_by_coordinate(point) == FirstFirFrom(1, point)

\* Route coordinates offered to the analyser (arc-seconds).
P_N44E160 == <<158400, 576000>>
P_N46E170 == <<165600, 612000>>
P_N49E180 == <<176400, 648000>>
P_N60W160 == <<216000, -576000>>
P_S30E170 == <<-108000, 612000>>
P_N50E1799 == <<180000, 647640>>
P_N50W1799 == <<180000, -647640>>
P_N50E000 == <<180000, 0>>

RoutePoints ==
    { P_N44E160, P_N46E170, P_N49E180, P_N60W160, P_S30E170,
      P_N50E1799, P_N50W1799, P_N50E000 }

\* ================================================================ state
VARIABLES
    \* --- FIRIdentifier.analyze_upr_route
    upr_coordinates,   \* the input coordinate list
    r_pc,              \* "idle" | "loop" | "done"
    r_i,               \* number of coordinates consumed (next 0-based index)
    current_fir,       \* FIR of the open segment, NONE for None
    segment_start,     \* 0-based index where the open segment starts
    r_coordinates,     \* result['coordinates']: sequence of [index, fir]
    traversed_firs,    \* result['traversed_firs']
    fir_segments,      \* result['fir_segments']: FIR -> sequence of segments
    \* --- NOTAMFilter.filter_korean_air_notams
    text,              \* the bulletin, as the sequence of its lines
    s_pc,              \* "idle" | "detect" | "merge" | "split" | "done"
    variant,           \* _detect_notam_type: "airport" | "package"
    lines,             \* the [num, line] entries the split loop iterates
    pos,               \* number of entries consumed by the loop
    current_notam,     \* current_notam / current_notam_lines
    notam_sections,    \* notam_sections / notams_with_index
    found_first_notam, \* airport variant only
    skip_mode,         \* airport variant only
    \* --- FIRNotamFilter.analyze_route_with_fir_notams
    f_coordinates,     \* parsed_route['coordinates']
    f_waypoints,       \* parsed_route['waypoints']
    notams_data,       \* the NOTAM records
    f_pc,              \* "idle" | "analyze" | "fir" | "waypoint" | "done"
    f_traversed_firs,  \* traversed_firs
    fir_notams,        \* fir_notams: FIR -> sequence of records
    f_n,               \* NOTAMs consumed by _filter_notams_by_waypoints
    waypoint_notams,   \* filtered_notams of _filter_notams_by_waypoints
    total_relevant_notams,
    waypoint_fir_analysis, \* result['waypoint_fir_analysis']
    \* --- IntegratedNOTAMTranslator / ParallelHybridNOTAMTranslator
    x_pc,              \* "idle" | "ready" | "running" | "done"
    x_entry,           \* "individual" | "parallel"
    x_requests,        \* requests served by the translator so far
    gemini_enabled,    \* self.gemini_enabled
    cache,             \* self.cache of IntegratedNOTAMTranslator
    x_notams,          \* notams_data of the request
    x_tasks,           \* the submitted futures, by record position
    x_collected,       \* positions whose future as_completed has yielded
    x_results,         \* results
    \* --- NOTAMFilter time handling and icao.py
    csv_file,          \* airports_timezones.csv as found on disk
    now,               \* the season datetime.now() falls in
    airports_data,     \* self.airports_data: ident -> utc_offset
    timezone_cache,    \* self.timezone_cache
    airport_timezones, \* icao._airport_timezones
    csv_loaded,        \* icao._csv_loaded
    csv_reads,         \* times icao read the CSV file
    t_pc,              \* "idle" | "parsed" | "built"
    t_calls,           \* calls served so far
    t_block,           \* the block being parsed
    notam_dict,        \* the record built from it
    fmt_call,          \* last call of format_notam_time_with_local
    tz_call,           \* last call of icao.get_utc_offset
    package_airport_order, \* NOTAMFilter.package_airport_order
    p_pc,              \* "idle" | "ready" | "filtered" | "extracted" | "done"
    p_requests,        \* uploads started so far
    p_text,            \* the text of the upload being served
    all_airports,      \* airports of the first filtering pass
    p_notams,          \* the records the upload returns
    u_segments,        \* the tokens of the route text being parsed
    u_pc,              \* "idle" | "loop" | "done"
    u_i,               \* tokens consumed
    u_result,          \* the result of parse_route_with_waypoints
    \* --- optimized_translator.TranslationCache
    tc_cache,          \* keys of TranslationCache.cache
    access_count,      \* TranslationCache.access_count, in insertion order
    tc_workers,        \* each worker's position in get or set
    tc_calls           \* calls of get and set started so far

routeVars == << upr_coordinates, r_pc, r_i, current_fir, segment_start,
                r_coordinates, traversed_firs, fir_segments >>

segVars == << text, s_pc, variant, lines, pos, current_notam, notam_sections,
              found_first_notam, skip_mode >>

firVars == << f_coordinates, f_waypoints, notams_data, f_pc, f_traversed_firs,
              fir_notams, f_n, waypoint_notams, total_relevant_notams,
              waypoint_fir_analysis >>

xlVars == << x_pc, x_entry, x_requests, gemini_enabled, cache, x_notams,
             x_tasks, x_collected, x_results >>

timeVars == << csv_file, now, airports_data, timezone_cache, airport_timezones,
               csv_loaded, csv_reads, t_pc, t_calls, t_block, notam_dict,
               fmt_call, tz_call >>

pkgVars == << package_airport_order, p_pc, p_requests, p_text, all_airports,
              p_notams >>

uprVars == << u_segments, u_pc, u_i, u_result >>

cacheVars == << tc_cache, access_count, tc_workers, tc_calls >>

vars == << routeVars, segVars, firVars, xlVars, timeVars, pkgVars, uprVars,
          cacheVars >>

\* what each component leaves alone
notRouteVars == << segVars, firVars, xlVars, timeVars, pkgVars, uprVars,
                cacheVars >>
notSegVars == << routeVars, firVars, xlVars, timeVars, pkgVars, uprVars,
                cacheVars >>
notFirVars == << routeVars, segVars, xlVars, timeVars, pkgVars, uprVars,
                cacheVars >>
notXlVars == << routeVars, segVars, firVars, timeVars, pkgVars, uprVars,
                cacheVars >>
notTimeVars == << routeVars, segVars, firVars, xlVars, pkgVars, uprVars,
                cacheVars >>
notPkgVars == << routeVars, segVars, firVars, xlVars, timeVars, uprVars,
                cacheVars >>
notUprVars == << routeVars, segVars, firVars, xlVars, timeVars, pkgVars,
                cacheVars >>
notCacheVars == << routeVars, segVars, firVars, xlVars, timeVars, pkgVars,
                  uprVars >>

\* ================================================= analyze_upr_route
\* 'coordinates': upr_coordinates[a:b] is SubSeq(upr_coordinates, a + 1, b)
Segment(s, e, cs) == [ start_index |-> s, end_index |-> e, coordinates |-> cs ]

\* result['fir_segments'][fir].append(seg), creating the key when absent
AppendSegment(segs, fir, seg) ==
    [ f \in DOMAIN segs \cup {fir} |->
        IF f = fir
        THEN Append(IF fir \in DOMAIN segs THEN segs[fir] ELSE << >>, seg)
        ELSE segs[f] ]

\* 'end_index': i - 1 of the segment closed when the FIR changes at index i
ClosedEndIndexMut(i) == i

ClosedEndIndex(i) == i - 1

RouteInitVars(coords, pc) ==
    /\ upr_coordinates = coords
    /\ r_pc = pc
    /\ r_i = 0
    /\ current_fir = NONE
    /\ segment_start = 0
    /\ r_coordinates = << >>
    /\ traversed_firs = << >>
    /\ fir_segments = << >>

\* One iteration of "for i, (lat, lon) in enumerate(upr_coordinates)"
RouteStep ==
    /\ r_pc = "loop"
    /\ r_i < Len(upr_coordinates)
    /\ LET i   == r_i
           fir == identify_fir_by_coordinate(upr_coordinates[i + 1])
       IN  /\ r_coordinates' = Append(r_coordinates, [ index |-> i, fir |-> fir ])
           /\ IF fir # current_fir
              THEN /\ fir_segments' =
                        IF current_fir # NONE
                        THEN AppendSegment(fir_segments, current_fir,
                                 Segment(segment_start, ClosedEndIndex(i),
                                         SubSeq(upr_coordinates, segment_start + 1, i)))
                        ELSE fir_segments
                   /\ current_fir' = fir
                   /\ segment_start' = i
                   /\ traversed_firs' =
                        IF fir # NONE /\ fir \notin Range(traversed_firs)
                        THEN Append(traversed_firs, fir)
                        ELSE traversed_firs
              ELSE UNCHANGED << fir_segments, current_fir, segment_start,
                                traversed_firs >>
           /\ r_i' = i + 1
    /\ UNCHANGED << upr_coordinates, r_pc >>
    /\ UNCHANGED notRouteVars

\* After the loop: close the last open segment and return.
RouteFinish ==
    /\ r_pc = "loop"
    /\ r_i = Len(upr_coordinates)
    /\ fir_segments' =
         IF current_fir # NONE
         THEN AppendSegment(fir_segments, current_fir,
                  Segment(segment_start, Len(upr_coordinates) - 1,
                          SubSeq(upr_coordinates, segment_start + 1,
                                 Len(upr_coordinates))))
         ELSE fir_segments
    /\ r_pc' = "done"
    /\ UNCHANGED << upr_coordinates, r_i, current_fir, segment_start,
                    r_coordinates, traversed_firs >>
    /\ UNCHANGED notRouteVars


\* ====================================================== bulletin lines
\* Representative bulletin lines.  Each table below lists the lines of the
\* universe (these lines and the lines the pre-merge pass builds from them)
\* that the named regular expression of the source accepts.
L_START == "09JUL25 16:00 - 25SEP25 09:00 RKSI Z0582/25"
L_BODY == "E) RWY 15L/33R CLOSED"
L_BLANK == ""
L_ALTN == "[ALTN]"
L_SECY == "SECY / SECURITY INFORMATION"
L_SECYITEM == "1. 01JAN25 00:00 - UFN SECY COAD01/25"
L_COMPANY == "COMPANY ADVISORY"
L_END == "END OF KOREAN AIR NOTAM PACKAGE"
L_RULE_WS == "==================== "
L_ID == "RKSI Z0582/25"
L_NUMDATE == "3. 09JUL25 16:00 - 25SEP25 09:00"
L_ENDPHRASE == "ANY CHANGE WILL BE NOTIFIED BY NOTAM."
L_NOCURRENT == "******** NO CURRENT NOTAMS FOUND ********"
\* a company-advisory NOTAM id followed by a blank (or the CR of a CRLF text)
L_COAD_WS == "VVCR  COAD01/25 "
\* The first entry of unwanted_keywords (an OCR artefact of "RAMP"), with its
\* three non-ASCII characters written as ASCII stand-ins; same length.
L_OCR == "a-R/A MP"

\* Lines that only arise from stripping or merging the lines above.
L_RULE == "===================="
L_DATE == "09JUL25 16:00 - 25SEP25 09:00"
L_SECYITEM_UNNUM == "01JAN25 00:00 - UFN SECY COAD01/25"
L_SECYITEM_ID == "01JAN25 00:00 - UFN SECY COAD01/25 RKSI Z0582/25"
L_START_ID == "09JUL25 16:00 - 25SEP25 09:00 RKSI Z0582/25 RKSI Z0582/25"
L_COAD == "VVCR  COAD01/25"
L_DATE_COAD == "09JUL25 16:00 - 25SEP25 09:00 VVCR  COAD01/25"
L_START_COAD == "09JUL25 16:00 - 25SEP25 09:00 RKSI Z0582/25 VVCR  COAD01/25"
L_SECYITEM_COAD == "01JAN25 00:00 - UFN SECY COAD01/25 VVCR  COAD01/25"

BulletinLines ==
    { L_START, L_BODY, L_BLANK, L_ALTN, L_SECY, L_SECYITEM, L_COMPANY, L_END,
      L_RULE_WS, L_ID, L_NUMDATE, L_ENDPHRASE, L_NOCURRENT, L_OCR, L_COAD_WS }

\* str.strip() / str.rstrip() / str.lstrip() of one line
Strip(line) ==
    IF line = L_RULE_WS THEN L_RULE
    ELSE IF line = L_COAD_WS THEN L_COAD ELSE line
RStrip(line) ==
    IF line = L_RULE_WS THEN L_RULE
    ELSE IF line = L_COAD_WS THEN L_COAD ELSE line
LStrip(line) == line

\* not line.strip()
IsBlank(line) == Strip(line) = L_BLANK

\* any(re.match(pattern, line) for pattern in notam_start_patterns)
AirportNotamStartLines ==
    { L_START, L_SECYITEM, L_SECYITEM_UNNUM, L_SECYITEM_ID, L_START_ID,
      L_COAD, L_DATE_COAD, L_START_COAD, L_SECYITEM_COAD }

\* re.search(r'END OF KOREAN AIR NOTAM PACKAGE', line.strip(), re.IGNORECASE)
EndOfPackageLines == { L_END }

\* re.search(r'\*{8}\s*NO CURRENT NOTAMS FOUND\s*\*{8}', line.strip(), ...)
NoCurrentNotamsLines == { L_NOCURRENT }

\* the three SECY searches on line.strip()
SecyLines ==
    { L_SECY, L_SECYITEM, L_SECYITEM_UNNUM, L_SECYITEM_ID, L_SECYITEM_COAD }

\* re.search(r'COMPANY ADVISORY|MPANY ADVISORY', line.strip(), re.IGNORECASE)
CompanyAdvisoryLines == { L_COMPANY }

\* any(re.match(pat, line) for pat in section_end_patterns), airport variant
AirportSectionEndLines == { L_ALTN, L_RULE }

\* any(keyword in line for keyword in unwanted_keywords)
UnwantedKeywordLines == { L_OCR }

\* re.match(coad_pattern, line) or re.match(notam_id_pattern, line), on the
\* stripped line (both branches of the pre-merge pass do the same thing)
MergeNotamIdLines == { L_ID, L_COAD }

\* re.match(date_line_pattern, filtered_lines[i+1].strip())
MergeDateLines ==
    { L_START, L_SECYITEM, L_NUMDATE, L_DATE, L_SECYITEM_UNNUM, L_SECYITEM_ID,
      L_START_ID, L_DATE_COAD, L_START_COAD, L_SECYITEM_COAD }

\* re.sub(r'^\d+\.\s+', '', next_line)
RemoveNumberPrefix(line) ==
    CASE line = L_NUMDATE  -> L_DATE
      [] line = L_SECYITEM -> L_SECYITEM_UNNUM
      [] OTHER             -> line

\* re.match(r'^={20,}$', line), package variant
PackageRuleLines == { L_RULE }

\* any(re.match(pattern, line.strip()) for pattern in section_end_patterns)
PackageSectionEndLines == { L_ALTN, L_RULE_WS, L_RULE }

\* a match of one of new_notam_patterns or of aip_ad_pattern on line.strip()
PackageNewNotamLines ==
    { L_START, L_SECYITEM, L_SECYITEM_UNNUM, L_SECYITEM_ID, L_START_ID,
      L_DATE_COAD, L_START_COAD, L_SECYITEM_COAD }

\* re.search(end_phrase_pattern, line)
EndPhraseLines == { L_ENDPHRASE }

\* 'KOREAN AIR NOTAM PACKAGE' in line.upper()
PackageMarkerLines == { L_END }

\* NOTAMFilter._detect_notam_type
detect_notam_type(txt) ==
    IF \E i \in 1..Len(txt) : txt[i] \in PackageMarkerLines
    THEN "package" ELSE "airport"

\* ------------------------------------------------ text at line granularity
\* A text is the sequence of its lines (text.split('\n')); a block is the
\* sequence of the lines of '\n'.join(current).strip().
RECURSIVE DropLeadingBlank(_)
DropLeadingBlank(ls) ==
    IF ls = << >> THEN << >>
    ELSE IF IsBlank(ls[1]) THEN DropLeadingBlank(Tail(ls)) ELSE ls

RECURSIVE DropTrailingBlank(_)
DropTrailingBlank(ls) ==
    IF ls = << >> THEN << >>
    ELSE IF IsBlank(ls[Len(ls)])
         THEN DropTrailingBlank(SubSeq(ls, 1, Len(ls) - 1)) ELSE ls

\* '\n'.join(ls).strip(), as a sequence of lines (<< >> is the empty string)
StripBlock(ls) ==
    LET core == DropTrailingBlank(DropLeadingBlank(ls))
    IN  [ i \in 1..Len(core) |->
            LET a == IF i = 1 THEN LStrip(core[i]) ELSE core[i]
            IN  IF i = Len(core) THEN RStrip(a) ELSE a ]

RECURSIVE SumLen(_)
SumLen(ls) == IF ls = << >> THEN 0 ELSE Len(ls[1]) + SumLen(Tail(ls))

\* len('\n'.join(ls))
JoinedLen(ls) == IF ls = << >> THEN 0 ELSE SumLen(ls) + (Len(ls) - 1)

\* enumerate(lines, 1)
Enumerate(ls) == [ i \in 1..Len(ls) |-> [ num |-> i, line |-> ls[i] ] ]

LinesOf(entries) == [ i \in 1..Len(entries) |-> entries[i].line ]
NumsOf(entries) == [ i \in 1..Len(entries) |-> entries[i].num ]

\* The block emitted for the accumulated entries: its text, with the line
\* numbers it was built from.
Block(entries) ==
    [ first |-> entries[1].num,
      nums  |-> NumsOf(entries),
      lines |-> StripBlock(LinesOf(entries)) ]

\* if current: sections.append('\n'.join(current).strip())
Emit(st) ==
    IF st.current # << >> THEN Append(st.sections, Block(st.current))
    ELSE st.sections

SegState0 ==
    [ current |-> << >>, sections |-> << >>, found |-> FALSE, skip |-> FALSE ]

\* ---------------------------------------- NOTAMFilter._filter_airport_notams
\* The "if skip_mode:" branch of the loop body.
AirportSkipLineMut(st, e) ==
    IF e.line \in AirportNotamStartLines
    THEN [ st EXCEPT !.found = TRUE, !.skip = FALSE,
                     !.sections = Emit(st), !.current = << e >> ]
    ELSE [ st EXCEPT !.current = Append(st.current, e) ]

AirportSkipLine(st, e) ==
    IF e.line \in AirportNotamStartLines
    THEN [ st EXCEPT !.found = TRUE, !.skip = FALSE,
                     !.sections = Emit(st), !.current = << e >> ]
    ELSE st

\* END OF KOREAN AIR NOTAM PACKAGE / NO CURRENT NOTAMS FOUND, and the
\* section_end_patterns branch: emit, reset, skip.
AirportSectionEndMut(st) ==
    [ st EXCEPT !.skip = TRUE ]

AirportSectionEnd(st) ==
    [ st EXCEPT !.sections = Emit(st), !.current = << >>, !.skip = TRUE ]

\* SECY and COMPANY ADVISORY lines: skip, the accumulated lines are kept.
AirportAdvisory(st) == [ st EXCEPT !.skip = TRUE ]

\* One iteration of "for line in lines".  The three checks the source makes
\* on "... and skip_mode" after the skip branch has already continued are
\* unreachable and have no counterpart here.
AirportLineMut(st, e) ==
    IF st.skip THEN AirportSkipLine(st, e)
    ELSE IF e.line \in EndOfPackageLines THEN AirportSectionEnd(st)
    ELSE IF e.line \in NoCurrentNotamsLines THEN AirportSectionEnd(st)
    ELSE IF e.line \in SecyLines THEN AirportAdvisory(st)
    ELSE IF e.line \in CompanyAdvisoryLines THEN AirportAdvisory(st)
    ELSE IF e.line \in AirportNotamStartLines
         THEN [ st EXCEPT !.found = TRUE, !.skip = FALSE,
                          !.current = Append(st.current, e) ]
    ELSE IF e.line \in AirportSectionEndLines THEN AirportSectionEnd(st)
    ELSE IF st.found THEN [ st EXCEPT !.current = Append(st.current, e) ]
    ELSE st

AirportLine(st, e) ==
    IF st.skip THEN AirportSkipLine(st, e)
    ELSE IF e.line \in EndOfPackageLines THEN AirportSectionEnd(st)
    ELSE IF e.line \in NoCurrentNotamsLines THEN AirportSectionEnd(st)
    ELSE IF e.line \in SecyLines THEN AirportAdvisory(st)
    ELSE IF e.line \in CompanyAdvisoryLines THEN AirportAdvisory(st)
    ELSE IF e.line \in AirportNotamStartLines
         THEN [ st EXCEPT !.found = TRUE, !.skip = FALSE,
                          !.sections = Emit(st), !.current = << e >> ]
    ELSE IF e.line \in AirportSectionEndLines THEN AirportSectionEnd(st)
    ELSE IF st.found THEN [ st EXCEPT !.current = Append(st.current, e) ]
    ELSE st

\* ------------------------------------ NOTAMFilter._merge_package_notam_lines
\* merged_lines.append(f"{cleaned_date_line} {line}")
MergedPairMut(date_line, id_line) ==
    RemoveNumberPrefix(date_line) \o " " \o id_line \o " " \o date_line

MergedPair(date_line, id_line) ==
    RemoveNumberPrefix(date_line) \o " " \o id_line

RECURSIVE MergeFrom(_, _)
MergeFrom(fl, i) ==
    IF i > Len(fl) THEN << >>
    ELSE LET line == Strip(fl[i])
         IN  IF /\ line \in MergeNotamIdLines
                /\ i + 1 <= Len(fl)
                /\ Strip(fl[i + 1]) \in MergeDateLines
             THEN << MergedPair(Strip(fl[i + 1]), line) >> \o MergeFrom(fl, i + 2)
             ELSE << line >> \o MergeFrom(fl, i + 1)

merge_package_notam_lines(txt) ==
    MergeFrom(SelectSeq(txt, LAMBDA l : l \notin UnwantedKeywordLines), 1)

\* '\n'.join(merged_lines).split('\n'): joining no line gives one empty line
SplitJoined(ls) == IF ls = << >> THEN << L_BLANK >> ELSE ls

\* lines_with_index: the non-blank lines, stripped, with their line numbers
LinesWithIndex(txt) ==
    LET all == [ i \in 1..Len(txt) |-> [ num |-> i, line |-> Strip(txt[i]) ] ]
    IN  SelectSeq(all, LAMBDA e : ~IsBlank(e.line))

\* ---------------------------------------- NOTAMFilter._split_package_notams
PackageLine(st, e) ==
    IF e.line \in PackageRuleLines \/ e.line \in PackageSectionEndLines
    THEN [ st EXCEPT !.sections = Emit(st), !.current = << >> ]
    ELSE LET st1 == IF e.line \in PackageNewNotamLines
                    THEN [ st EXCEPT !.sections = Emit(st), !.current = << e >> ]
                    ELSE [ st EXCEPT !.current = Append(st.current, e) ]
         IN  IF e.line \in EndPhraseLines
             THEN [ st1 EXCEPT !.sections = Emit(st1), !.current = << >> ]
             ELSE st1

\* notams_with_index.sort(key=lambda x: x[0]): stable insertion sort
RECURSIVE InsertByFirst(_, _)
InsertByFirst(sorted, b) ==
    IF sorted = << >> THEN << b >>
    ELSE IF sorted[Len(sorted)].first <= b.first THEN Append(sorted, b)
    ELSE Append(InsertByFirst(SubSeq(sorted, 1, Len(sorted) - 1), b),
                sorted[Len(sorted)])

RECURSIVE SortByFirst(_)
SortByFirst(bs) ==
    IF bs = << >> THEN << >>
    ELSE InsertByFirst(SortByFirst(SubSeq(bs, 1, Len(bs) - 1)), bs[Len(bs)])

\* ------------------------------------------- segmentation as a function
RECURSIVE FoldLines(_, _, _, _)
FoldLines(variant_, st, entries, k) ==
    IF k > Len(entries) THEN st
    ELSE FoldLines(variant_,
                   IF variant_ = "package" THEN PackageLine(st, entries[k])
                   ELSE AirportLine(st, entries[k]),
                   entries, k + 1)

BlockTexts(bs) == [ i \in 1..Len(bs) |-> bs[i].lines ]

\* The block texts _filter_airport_notams splits a text into.
AirportSections(txt) ==
    BlockTexts(Emit(FoldLines("airport", SegState0, Enumerate(txt), 1)))

\* The block texts of _merge_package_notam_lines + _split_package_notams.
PackageSections(txt) ==
    BlockTexts(SortByFirst(Emit(
        FoldLines("package", SegState0,
                  LinesWithIndex(SplitJoined(merge_package_notam_lines(txt))), 1))))

\* '\n'.join(blocks).split('\n')
RECURSIVE Rejoin(_)
Rejoin(bs) ==
    IF bs = << >> THEN << >>
    ELSE (IF bs[1] = << >> THEN << L_BLANK >> ELSE bs[1]) \o Rejoin(Tail(bs))

RejoinedText(bs) == IF bs = << >> THEN << L_BLANK >> ELSE Rejoin(bs)

\* ============================================== segmenter state machine
\* filter_korean_air_notams: detect the bulletin type and dispatch.
SegDetect ==
    /\ s_pc = "detect"
    /\ variant' = detect_notam_type(text)
    /\ IF detect_notam_type(text) = "package"
       THEN /\ s_pc' = "merge"
            /\ lines' = << >>
       ELSE /\ s_pc' = "split"
            /\ lines' = Enumerate(text)
    /\ UNCHANGED << text, pos, current_notam, notam_sections,
                    found_first_notam, skip_mode >>
    /\ UNCHANGED notSegVars

\* _filter_package_notams: the pre-merge pass, then lines_with_index.
PackageMerge ==
    /\ s_pc = "merge"
    /\ lines' = LinesWithIndex(SplitJoined(merge_package_notam_lines(text)))
    /\ s_pc' = "split"
    /\ UNCHANGED << text, variant, pos, current_notam, notam_sections,
                    found_first_notam, skip_mode >>
    /\ UNCHANGED notSegVars

SegStateNow ==
    [ current |-> current_notam, sections |-> notam_sections,
      found |-> found_first_notam, skip |-> skip_mode ]

SetSegState(st) ==
    /\ current_notam' = st.current
    /\ notam_sections' = st.sections
    /\ found_first_notam' = st.found
    /\ skip_mode' = st.skip

\* One iteration of the airport loop.
AirportReadLine ==
    /\ s_pc = "split" /\ variant = "airport"
    /\ pos < Len(lines)
    /\ SetSegState(AirportLine(SegStateNow, lines[pos + 1]))
    /\ pos' = pos + 1
    /\ UNCHANGED << text, variant, s_pc, lines >>
    /\ UNCHANGED notSegVars

\* After the airport loop: emit what is still accumulated.
AirportFinish ==
    /\ s_pc = "split" /\ variant = "airport"
    /\ pos = Len(lines)
    /\ notam_sections' = Emit(SegStateNow)
    /\ s_pc' = "done"
    /\ UNCHANGED << text, variant, lines, pos, current_notam,
                    found_first_notam, skip_mode >>
    /\ UNCHANGED notSegVars

\* One iteration of the package loop.
PackageReadLine ==
    /\ s_pc = "split" /\ variant = "package"
    /\ pos < Len(lines)
    /\ SetSegState(PackageLine(SegStateNow, lines[pos + 1]))
    /\ pos' = pos + 1
    /\ UNCHANGED << text, variant, s_pc, lines >>
    /\ UNCHANGED notSegVars

\* After the package loop: emit the rest, sort by first line number, return.
PackageFinish ==
    /\ s_pc = "split" /\ variant = "package"
    /\ pos = Len(lines)
    /\ notam_sections' = SortByFirst(Emit(SegStateNow))
    /\ s_pc' = "done"
    /\ UNCHANGED << text, variant, lines, pos, current_notam,
                    found_first_notam, skip_mode >>
    /\ UNCHANGED notSegVars


\* ======================================================= specifications
SegInitVars(txt, pc) ==
    /\ text = txt
    /\ s_pc = pc
    /\ variant = "airport"
    /\ lines = << >>
    /\ pos = 0
    /\ current_notam = << >>
    /\ notam_sections = << >>
    /\ found_first_notam = FALSE
    /\ skip_mode = FALSE


\* ============================================= FIRNotamFilter (route NOTAMs)
\* ICAO codes and waypoint names are sequences of letters, so that the
\* two-letter prefix, the length and "occurs in the description" are computed.
RKSI == << "R", "K", "S", "I" >>
KSEA == << "K", "S", "E", "A" >>
KPDX == << "K", "P", "D", "X" >>
NZAA == << "N", "Z", "A", "A" >>
CLSD == << "C", "L", "S", "D" >>
EGOBA == << "E", "G", "O", "B", "A" >>
LANAT == << "L", "A", "N", "A", "T" >>
ORNAI == << "O", "R", "N", "A", "I" >>
TOU == << "T", "O", "U" >>

\* self.fir_airport_mapping, in dict order
fir_airport_mapping ==
    << [ fir |-> "PAZA", prefixes |-> { << "P", "A" >>, << "K", "Z" >> } ],
       [ fir |-> "KZAK", prefixes |-> { << "K", "Z" >> } ],
       [ fir |-> "NZZO", prefixes |-> { << "N", "Z" >> } ],
       [ fir |-> "AYPM", prefixes |-> { << "A", "Y" >> } ],
       [ fir |-> "RJJJ", prefixes |-> { << "R", "J" >>, << "R", "K" >> } ] >>

\* self.specific_airport_mapping
specific_airport_mapping ==
    [ c \in { RKSI, KSEA, KPDX } |-> IF c = RKSI THEN "RJJJ" ELSE "PAZA" ]

RECURSIVE FirstMappedFir(_, _)
FirstMappedFir(k, prefix) ==
    IF k > Len(fir_airport_mapping) THEN NONE
    ELSE IF prefix \in fir_airport_mapping[k].prefixes
         THEN fir_airport_mapping[k].fir
         ELSE FirstMappedFir(k + 1, prefix)

\* FIRNotamFilter._get_fir_from_airport_code
get_fir_from_airport_code(airport_code) ==
    IF Len(airport_code) < 2 THEN NONE
    ELSE IF airport_code \in DOMAIN specific_airport_mapping
         THEN specific_airport_mapping[airport_code]
         ELSE FirstMappedFir(1, SubSeq(airport_code, 1, 2))

\* The description is a sequence of upper-case words separated by blanks;
\* "w in description" holds when w occurs inside one of the words.
OccursIn(w, word) ==
    \E a \in 1..(Len(word) - Len(w) + 1) : SubSeq(word, a, a + Len(w) - 1) = w

Mentions(description, w) ==
    \E k \in 1..Len(description) : OccursIn(w, description[k])

\* FIRNotamFilter._extract_airport_codes_from_notam (the record has no
\* 'text' key; '' stands for a missing airport_code); the result is a set,
\* as list(set(...)) is only iterated with any-match loops
extract_airport_codes_from_notam(notam) ==
    LET from_airports == Range(notam.airports)
        from_code     == IF notam.airport_code # << >> THEN { notam.airport_code } ELSE {}
        from_text     == { notam.description[k] : k \in
                             { j \in 1..Len(notam.description) :
                                 Len(notam.description[j]) = 4 } }
    IN  { code \in from_airports \cup from_code \cup from_text :
            code # << >> /\ Len(code) = 4 }

\* FIRNotamFilter._is_notam_relevant_to_firs
is_notam_relevant_to_firs(notam, fir_codes) ==
    \E airport_code \in extract_airport_codes_from_notam(notam) :
        get_fir_from_airport_code(airport_code) \in fir_codes

\* FIRNotamFilter.filter_notams_by_fir
filter_notams_by_fir(data, fir_codes) ==
    SelectSeq(data, LAMBDA notam : is_notam_relevant_to_firs(notam, fir_codes))

\* notam.get('notam_number', '') + str(notam.get('airports', [])): the
\* number has no bracket, so the string determines the pair and vice versa
NotamId(notam) == << notam.notam_number, notam.airports >>

\* unique_notams: the first record of each id, in order of first occurrence
RECURSIVE UniqueNotams(_, _)
UniqueNotams(filtered, seen) ==
    IF filtered = << >> THEN << >>
    ELSE IF NotamId(Head(filtered)) \in seen
         THEN UniqueNotams(Tail(filtered), seen)
         ELSE << Head(filtered) >>
                \o UniqueNotams(Tail(filtered), seen \cup { NotamId(Head(filtered)) })

\* NavDataLoader.waypoint_data, in tenths of a degree
waypoint_data ==
    [ w \in { EGOBA, LANAT, ORNAI, TOU } |->
        IF w = EGOBA THEN << 375, 1265 >>
        ELSE IF w = LANAT THEN << 352, 1290 >>
        ELSE IF w = ORNAI THEN << 475, -1223 >>
        ELSE << 376, -1224 >> ]

\* NavDataLoader.estimate_waypoint_fir
estimate_waypoint_fir(waypoint) ==
    IF waypoint \notin DOMAIN waypoint_data THEN NONE
    ELSE LET lat == waypoint_data[waypoint][1]
             lon == waypoint_data[waypoint][2]
         IN  IF 240 <= lat /\ lat <= 500 /\ 1200 <= lon /\ lon <= 1800
             THEN "RJJJ"
             ELSE IF /\ 200 <= lat /\ lat <= 550
                     /\ \/ (1400 <= lon /\ lon <= 1800)
                        \/ (-1800 <= lon /\ lon <= -1400)
                  THEN "KZAK"
                  ELSE IF 450 <= lat /\ lat <= 700 /\ -1800 <= lon /\ lon <= -1200
                       THEN "PAZA"
                       ELSE NONE

\* result['traversed_firs'] of analyze_upr_route(coordinates): the loop of
\* RouteStep, keeping only current_fir and the list
RECURSIVE TraversedFrom(_, _, _, _)
TraversedFrom(coords, k, cur, acc) ==
    IF k > Len(coords) THEN acc
    ELSE LET fir == identify_fir_by_coordinate(coords[k])
         IN  IF fir # cur
             THEN TraversedFrom(coords, k + 1, fir,
                      IF fir # NONE /\ fir \notin Range(acc)
                      THEN Append(acc, fir) ELSE acc)
             ELSE TraversedFrom(coords, k + 1, cur, acc)

\* fir_analysis.get('traversed_firs', []), fir_analysis being {} for no
\* coordinates
RouteTraversedFirs(coords) ==
    IF coords = << >> THEN << >> ELSE TraversedFrom(coords, 1, NONE, << >>)

\* The second loop of _filter_notams_by_waypoints for one NOTAM: one append
\* per waypoint whose estimated FIR is the FIR of one of the NOTAM's airports
\* (the break leaves the airport loop only).
RECURSIVE FirMatches(_, _)
FirMatches(notam, wps) ==
    IF wps = << >> THEN << >>
    ELSE LET waypoint_fir == estimate_waypoint_fir(Head(wps))
             hit == /\ waypoint_fir # NONE
                    /\ \E airport_code \in extract_airport_codes_from_notam(notam) :
                          get_fir_from_airport_code(airport_code) = waypoint_fir
         IN  (IF hit THEN << notam >> ELSE << >>) \o FirMatches(notam, Tail(wps))

\* The body of "for notam in notams_data" in _filter_notams_by_waypoints:
\* what one NOTAM adds to filtered_notams
WaypointMatches(notam, wps) ==
    IF \E k \in 1..Len(wps) : Mentions(notam.description, wps[k])
    THEN << notam >>
    ELSE FirMatches(notam, wps)

\* NavDataLoader.get_waypoint_coordinates, in arc-seconds; << >> for None.
\* The parser passes upper-case names only, upper() changes nothing.
get_waypoint_coordinates(waypoint) ==
    IF waypoint \in DOMAIN waypoint_data
    THEN << << waypoint_data[waypoint][1] * 360, waypoint_data[waypoint][2] * 360 >> >>
    ELSE << >>

EmptyWaypointAnalysis ==
    [ waypoint_firs |-> << >>, fir_waypoints |-> << >>, unknown_waypoints |-> << >> ]

\* result['waypoint_firs'][waypoint] = entry and the grouping by FIR
WithWaypointFir(result, waypoint, entry) ==
    [ waypoint_firs |->
        [ w \in DOMAIN result.waypoint_firs \cup { waypoint } |->
            IF w = waypoint THEN entry ELSE result.waypoint_firs[w] ],
      fir_waypoints |->
        [ f \in DOMAIN result.fir_waypoints \cup { entry.fir } |->
            IF f = entry.fir
            THEN (IF f \in DOMAIN result.fir_waypoints
                  THEN result.fir_waypoints[f] ELSE << >>) \o << waypoint >>
            ELSE result.fir_waypoints[f] ],
      unknown_waypoints |-> result.unknown_waypoints ]

WithUnknownWaypoint(result, waypoint) ==
    [ result EXCEPT !.unknown_waypoints = Append(@, waypoint) ]

\* the body of "for waypoint in waypoints" in _analyze_waypoint_firs
\* (estimated = FALSE stands for an entry without the key 'estimated')
AnalyzeWaypoint(result, waypoint) ==
    LET coords == get_waypoint_coordinates(waypoint) IN
    IF coords # << >>
    THEN LET fir == identify_fir_by_coordinate(coords[1]) IN
         IF fir # NONE
         THEN WithWaypointFir(result, waypoint,
                  [ fir |-> fir, coordinates |-> coords, estimated |-> FALSE ])
         ELSE WithUnknownWaypoint(result, waypoint)
    ELSE LET estimated_fir == estimate_waypoint_fir(waypoint) IN
         IF estimated_fir # NONE
         THEN WithWaypointFir(result, waypoint,
                  [ fir |-> estimated_fir, coordinates |-> << >>, estimated |-> TRUE ])
         ELSE WithUnknownWaypoint(result, waypoint)

\* FIRNotamFilter._analyze_waypoint_firs
RECURSIVE AnalyzeWaypointsFrom(_, _, _)
AnalyzeWaypointsFrom(result, waypoints, k) ==
    IF k > Len(waypoints) THEN result
    ELSE AnalyzeWaypointsFrom(AnalyzeWaypoint(result, waypoints[k]), waypoints, k + 1)

analyze_waypoint_firs(waypoints) ==
    AnalyzeWaypointsFrom(EmptyWaypointAnalysis, waypoints, 1)

\* FIRNotamFilter._count_total_relevant_notams
count_total_relevant_notams(firNotams, wpNotams) ==
    Cardinality(
        UNION { { NotamId(firNotams[f][k]) : k \in 1..Len(firNotams[f]) }
                  : f \in DOMAIN firNotams }
        \cup { NotamId(wpNotams[k]) : k \in 1..Len(wpNotams) })

FirInitVars(coords, wps, data, pc) ==
    /\ f_coordinates = coords
    /\ f_waypoints = wps
    /\ notams_data = data
    /\ f_pc = pc
    /\ f_traversed_firs = << >>
    /\ fir_notams = << >>
    /\ f_n = 0
    /\ waypoint_notams = << >>
    /\ total_relevant_notams = 0
    /\ waypoint_fir_analysis = EmptyWaypointAnalysis

\* Steps 1-2 of analyze_route_with_fir_notams: the parsed route's
\* coordinates are analysed for the FIRs they traverse.
FirAnalyzeRoute ==
    /\ f_pc = "analyze"
    /\ f_traversed_firs' = RouteTraversedFirs(f_coordinates)
    /\ f_pc' = "fir"
    /\ UNCHANGED << f_coordinates, f_waypoints, notams_data, fir_notams, f_n,
                    waypoint_notams, total_relevant_notams,
                    waypoint_fir_analysis >>
    /\ UNCHANGED notFirVars

\* One iteration of "for fir_code in traversed_firs" (step 3)
FirFilterStep ==
    /\ f_pc = "fir"
    /\ Cardinality(DOMAIN fir_notams) < Len(f_traversed_firs)
    /\ LET fir_code == f_traversed_firs[Cardinality(DOMAIN fir_notams) + 1]
           filtered_notams == filter_notams_by_fir(notams_data, { fir_code })
       IN  fir_notams' =
             [ f \in DOMAIN fir_notams \cup { fir_code } |->
                 IF f = fir_code THEN UniqueNotams(filtered_notams, {})
                 ELSE fir_notams[f] ]
    /\ UNCHANGED << f_coordinates, f_waypoints, notams_data, f_pc,
                    f_traversed_firs, f_n, waypoint_notams,
                    total_relevant_notams,
                    waypoint_fir_analysis >>
    /\ UNCHANGED notFirVars

\* Step 3 is over: _filter_notams_by_waypoints starts (step 4).
FirFilterDone ==
    /\ f_pc = "fir"
    /\ Cardinality(DOMAIN fir_notams) = Len(f_traversed_firs)
    /\ f_pc' = "waypoint"
    /\ UNCHANGED << f_coordinates, f_waypoints, notams_data, f_traversed_firs,
                    fir_notams, f_n, waypoint_notams, total_relevant_notams,
                    waypoint_fir_analysis >>
    /\ UNCHANGED notFirVars

\* One iteration of "for notam in notams_data" in _filter_notams_by_waypoints
WaypointFilterStep ==
    /\ f_pc = "waypoint"
    /\ f_n < Len(notams_data)
    /\ waypoint_notams' =
         waypoint_notams \o WaypointMatches(notams_data[f_n + 1], f_waypoints)
    /\ f_n' = f_n + 1
    /\ UNCHANGED << f_coordinates, f_waypoints, notams_data, f_pc,
                    f_traversed_firs, fir_notams, total_relevant_notams,
                    waypoint_fir_analysis >>
    /\ UNCHANGED notFirVars

\* Step 5 and the return statement: the waypoints' FIRs are analysed,
\* total_relevant_notams is counted and the result returned.
FirReturn ==
    /\ f_pc = "waypoint"
    /\ f_n = Len(notams_data)
    /\ total_relevant_notams' =
         count_total_relevant_notams(fir_notams, waypoint_notams)
    /\ waypoint_fir_analysis' = analyze_waypoint_firs(f_waypoints)
    /\ f_pc' = "done"
    /\ UNCHANGED << f_coordinates, f_waypoints, notams_data, f_traversed_firs,
                    fir_notams, f_n, waypoint_notams >>
    /\ UNCHANGED notFirVars


\* ================================================ translation worker pools
\* Texts are sequences of chunks.  A text of more than 100 characters has its
\* first 100 characters as first chunk; a shorter text is one shorter chunk.
LongHead ==
    "RWY 15L/33R CLOSED DUE TO PAVEMENT REHABILITATION WORK BTN TWY A AND TWY B ACFT SHALL USE RWY 15R/33"
T_PHASE1 == << LongHead, "L DURING PHASE 1" >>
T_PHASE2 == << LongHead, "L DURING PHASE 2" >>

RECURSIVE TextLen(_)
TextLen(t) == IF t = << >> THEN 0 ELSE Len(Head(t)) + TextLen(Tail(t))

\* e_section[:100]
KeyPrefixLen == 100

Prefix100(t) ==
    IF t = << >> THEN << >>
    ELSE IF Len(t[1]) = KeyPrefixLen THEN << t[1] >> ELSE t

\* The collaborator's answer for a text and language, and its summary
Translated(t, lang) == << lang, "translation of" >> \o t
Summarized(t, lang) == << lang, "summary of" >> \o t

\* apply_color_styles and convert_markdown_to_html wrap the text
apply_color_styles(t) == << "styled" >> \o t
convert_markdown_to_html(t) == << "html" >> \o t

\* f'처리 오류: {str(e)}'
ProcessingErrorSummary == << "cheori oryu" >>

\* '번역 실패', '요약 실패', 'Translation failed', 'Summary failed'
KoreanTranslationFailed == << "beonyeok silpae" >>
KoreanSummaryFailed == << "yoyak silpae" >>
EnglishTranslationFailed == << "Translation failed" >>
EnglishSummaryFailed == << "Summary failed" >>

\* self.max_workers of IntegratedNOTAMTranslator
max_workers == 3

\* Outcomes of one call of the translation collaborator: an answer, an empty
\* answer, an exception.
CallOutcomes == { "ok", "blank", "error" }

\* cache key of process_single_integrated (md5 of the text stands for it)
SingleKey(t, lang) == << "integrated_single", lang, t >>

\* cache key of process_single_notam_complete
CompleteKey(e_section, index) == << "complete", Prefix100(e_section), index >>

\* process_single_integrated past the cache check: the result and whether it
\* is stored in self.cache
CallResult(t, lang, outcome) ==
    IF outcome = "error"
    THEN [ translation |-> t, summary |-> ProcessingErrorSummary ]
    ELSE IF outcome = "blank"
         THEN [ translation |-> << >>, summary |-> << >> ]
         ELSE [ translation |->
                    IF lang = "ko"
                    THEN convert_markdown_to_html(apply_color_styles(Translated(t, lang)))
                    ELSE Translated(t, lang),
                summary |-> Summarized(t, lang) ]

\* process_single_integrated(notam_text, target_language): the pair of the
\* returned result and the cache afterwards
process_single_integrated(c, enabled, t, lang, outcome) ==
    IF ~enabled
    THEN [ result |-> [ translation |-> t, summary |-> << >> ], cache |-> c ]
    ELSE IF SingleKey(t, lang) \in DOMAIN c
         THEN [ result |-> c[SingleKey(t, lang)], cache |-> c ]
         ELSE IF outcome = "error"
              THEN [ result |-> CallResult(t, lang, outcome), cache |-> c ]
              ELSE [ result |-> CallResult(t, lang, outcome),
                     cache  |-> [ k \in DOMAIN c \cup { SingleKey(t, lang) } |->
                                    IF k = SingleKey(t, lang)
                                    THEN CallResult(t, lang, outcome)
                                    ELSE c[k] ] ]

\* The collaborator was called and raised (the except branch of
\* process_single_integrated was taken).
CallFailed(c, enabled, t, lang, outcome) ==
    enabled /\ SingleKey(t, lang) \notin DOMAIN c /\ outcome = "error"

\* What can happen in a stage of a task: the collaborator is called only on
\* a miss of an enabled translator, and then answers or raises; an exception
\* may be raised in the task itself.
StageOutcomes(c, enabled, t, lang) ==
    IF enabled /\ SingleKey(t, lang) \notin DOMAIN c
    THEN CallOutcomes \cup { "raise" }
    ELSE { "ok", "raise" }

\* original_text = notam.get('original_text', notam.get('description', ''))
\* with the HTML tags removed and stripped (the texts here carry no tag)
ESection(notam) == notam.original_text

\* None, in a result slot or for a value not yet computed
NoResult == [ none |-> TRUE ]

\* notam.copy() updated with the five result keys
Enhanced(notam, kt, ks, et, es, e_section) ==
    [ notam_number |-> notam.notam_number,
      airport_code |-> notam.airport_code,
      original_text |-> notam.original_text,
      internal_id |-> notam.internal_id,
      korean_translation |-> kt,
      korean_summary |-> ks,
      english_translation |-> et,
      english_summary |-> es,
      e_section |-> e_section ]

\* IntegratedNOTAMTranslator._create_fallback_result
create_fallback_resultMut(notam, e_section) == NoResult

create_fallback_result(notam, e_section) ==
    Enhanced(notam, KoreanTranslationFailed, KoreanSummaryFailed,
             EnglishTranslationFailed, EnglishSummaryFailed, e_section)

\* "결과 생성" of process_single_notam_complete
CompleteResult(notam, english, korean, e_section) ==
    Enhanced(notam,
        IF korean.translation # << >>
        THEN convert_markdown_to_html(apply_color_styles(korean.translation))
        ELSE KoreanTranslationFailed,
        IF korean.summary # << >> THEN korean.summary ELSE KoreanSummaryFailed,
        IF english.translation # << >>
        THEN apply_color_styles(english.translation)
        ELSE EnglishTranslationFailed,
        IF english.summary # << >> THEN english.summary ELSE EnglishSummaryFailed,
        e_section)

\* The text the Korean stage translates: the English translation when
\* english_translation and len(english_translation.strip()) > 10, else the
\* original
KoreanSource(english, e_section) ==
    IF english.translation # << >> /\ TextLen(english.translation) > 10
    THEN english.translation ELSE e_section

\* notam['_internal_id'] = f"{notam_number}_{airport_code}_{i}"
WithInternalId(notam, i) ==
    [ notam_number |-> notam.notam_number,
      airport_code |-> notam.airport_code,
      original_text |-> notam.original_text,
      internal_id |-> << notam.notam_number, notam.airport_code, i >> ]

\* translate_single_notam's result for a record of process_notams_parallel,
\* and the error record of both of its except branches
ParallelResult(notam) ==
    Enhanced(notam,
        apply_color_styles(Translated(notam.original_text, "ko")),
        Summarized(notam.original_text, "ko"),
        apply_color_styles(Translated(notam.original_text, "en")),
        Summarized(notam.original_text, "en"),
        << "e_section of" >> \o notam.original_text)

ParallelErrorResult(notam) ==
    [ Enhanced(notam, KoreanTranslationFailed, KoreanSummaryFailed,
               EnglishTranslationFailed, EnglishSummaryFailed, << >>)
        EXCEPT !.notam_number = "UNKNOWN" ]

QueuedTask == [ st |-> "queued", english |-> NoResult, failed |-> "no",
                result |-> NoResult ]

RunningTasks == { i \in DOMAIN x_tasks : x_tasks[i].st = "korean" }

XlInitVars(pc) ==
    /\ x_pc = pc
    /\ x_entry = "individual"
    /\ x_requests = 0
    /\ gemini_enabled \in BOOLEAN
    /\ cache = << >>
    /\ x_notams = << >>
    /\ x_tasks = << >>
    /\ x_collected = {}
    /\ x_results = << >>

\* The records a request may carry.
XRecords ==
    { [ notam_number |-> "Z0582/25", airport_code |-> "RKSI",
        original_text |-> T_PHASE1, internal_id |-> << >> ],
      [ notam_number |-> "C0007/25", airport_code |-> "RKSI",
        original_text |-> T_PHASE2, internal_id |-> << >> ] }

\* An entry point runs up to the submission of one task per record.  An
\* empty list returns [] at once.
StartRequest(entry, batch) ==
    /\ x_entry' = entry
    /\ x_notams' =
         IF entry = "individual"
         THEN [ i \in 1..Len(batch) |-> WithInternalId(batch[i], i - 1) ]
         ELSE batch
    /\ x_tasks' = [ i \in 1..Len(batch) |-> QueuedTask ]
    /\ x_results' =
         IF entry = "individual"
         THEN [ i \in 1..Len(batch) |-> NoResult ]
         ELSE << >>
    /\ x_pc' = IF batch = << >> THEN "done" ELSE "running"
    /\ x_requests' = x_requests + 1
    /\ x_collected' = {}
    /\ UNCHANGED << cache, gemini_enabled >>

\* The first request arrives at the newly constructed translator.
XlRequest ==
    /\ x_pc = "ready"
    /\ \E entry \in { "individual", "parallel" },
          batch \in SeqsUpTo(XRecords, MaxBatch) : StartRequest(entry, batch)
    /\ UNCHANGED notXlVars

\* A later request arrives at the same (module-level) translator, whose
\* self.cache holds what the earlier requests left.
XlNextRequest ==
    /\ x_pc = "done"
    /\ x_requests < MaxRequests
    /\ \E entry \in { "individual", "parallel" },
          batch \in SeqsUpTo(XRecords, MaxBatch) : StartRequest(entry, batch)
    /\ UNCHANGED notXlVars

\* The future of record i is done with task record t.  A finished future is
\* yielded by as_completed and its result collected by the submitting
\* thread: results[notam_idx] = result in process_notams_individual,
\* results.append(result) in process_notams_parallel.
SetTask(i, t) ==
    /\ x_tasks' = [ x_tasks EXCEPT ![i] = t ]
    /\ IF t.st = "returned"
       THEN /\ x_collected' = x_collected \cup { i }
            /\ x_results' = IF x_entry = "individual"
                            THEN [ x_results EXCEPT ![i] = t.result ]
                            ELSE Append(x_results, t.result)
       ELSE UNCHANGED << x_collected, x_results >>

\* A worker takes the task of record i of process_notams_individual and
\* runs process_single_notam_complete up to the end of its English stage: a
\* hit in self.cache returns the cached result; else
\* process_single_integrated(e_section, 'en') returns (storing its result in
\* self.cache), or an exception is raised in the task and the fallback
\* result is returned.
TaskEnglishStage ==
    /\ x_pc = "running" /\ x_entry = "individual"
    /\ Cardinality(RunningTasks) < max_workers
    /\ \E i \in DOMAIN x_tasks :
        \E outcome \in
              IF CompleteKey(ESection(x_notams[i]), i - 1) \in DOMAIN cache
              THEN { "ok" }
              ELSE StageOutcomes(cache, gemini_enabled, ESection(x_notams[i]), "en") :
          /\ x_tasks[i].st = "queued"
          /\ LET e_section == ESection(x_notams[i])
                 key == CompleteKey(e_section, i - 1)
                 r == process_single_integrated(cache, gemini_enabled,
                          e_section, "en", outcome)
             IN  IF key \in DOMAIN cache
                 THEN /\ SetTask(i, [ x_tasks[i] EXCEPT
                             !.st = "returned", !.result = cache[key] ])
                      /\ cache' = cache
                 ELSE IF outcome = "raise"
                      THEN /\ SetTask(i, [ x_tasks[i] EXCEPT
                                  !.st = "returned", !.failed = "raised",
                                  !.result = create_fallback_result(x_notams[i],
                                                 e_section) ])
                           /\ cache' = cache
                      ELSE /\ SetTask(i, [ x_tasks[i] EXCEPT
                                  !.st = "korean", !.english = r.result,
                                  !.failed =
                                     IF CallFailed(cache, gemini_enabled,
                                            e_section, "en", outcome)
                                     THEN "api" ELSE "no" ])
                           /\ cache' = r.cache
    /\ UNCHANGED << x_pc, x_entry, x_requests, gemini_enabled, x_notams >>
    /\ UNCHANGED notXlVars

\* The Korean stage of a task ends: the result is built, stored in
\* self.cache under the task's key and returned; or an exception was raised
\* and the fallback result is returned.
TaskKoreanStage ==
    /\ x_pc = "running" /\ x_entry = "individual"
    /\ \E i \in { j \in DOMAIN x_tasks : x_tasks[j].st = "korean" } :
        \E outcome \in StageOutcomes(cache, gemini_enabled,
                            KoreanSource(x_tasks[i].english,
                                         ESection(x_notams[i])), "ko") :
          /\ x_tasks[i].st = "korean"
          /\ IF outcome = "raise"
             THEN /\ SetTask(i, [ x_tasks[i] EXCEPT
                         !.st = "returned", !.failed = "raised",
                         !.result = create_fallback_result(x_notams[i],
                                        ESection(x_notams[i])) ])
                  /\ cache' = cache
             ELSE LET e_section == ESection(x_notams[i])
                      r == process_single_integrated(cache, gemini_enabled,
                               KoreanSource(x_tasks[i].english, e_section),
                               "ko", outcome)
                      enhanced_notam == CompleteResult(x_notams[i],
                               x_tasks[i].english, r.result, e_section)
                      key == CompleteKey(e_section, i - 1)
                  IN  /\ SetTask(i, [ x_tasks[i] EXCEPT
                             !.st = "returned", !.result = enhanced_notam,
                             !.failed =
                                IF CallFailed(cache, gemini_enabled,
                                       KoreanSource(x_tasks[i].english, e_section),
                                       "ko", outcome)
                                THEN "api" ELSE @ ])
                      /\ cache' = [ k \in DOMAIN r.cache \cup { key } |->
                                      IF k = key THEN enhanced_notam
                                      ELSE r.cache[k] ]
    /\ UNCHANGED << x_pc, x_entry, x_requests, gemini_enabled, x_notams >>
    /\ UNCHANGED notXlVars

\* A worker runs translate_single_notam for record i of
\* process_notams_parallel: it returns the translated record, or the error
\* record of its except branch.
ParallelTaskRun ==
    /\ x_pc = "running" /\ x_entry = "parallel"
    /\ \E i \in DOMAIN x_tasks, outcome \in { "ok", "raise" } :
          /\ x_tasks[i].st = "queued"
          /\ SetTask(i, [ x_tasks[i] EXCEPT
                 !.st = "returned",
                 !.failed = IF outcome = "raise" THEN "raised" ELSE "no",
                 !.result = IF outcome = "raise"
                            THEN ParallelErrorResult(x_notams[i])
                            ELSE ParallelResult(x_notams[i]) ])
    /\ UNCHANGED << x_pc, x_entry, x_requests, gemini_enabled, cache, x_notams >>
    /\ UNCHANGED notXlVars

\* Every future was collected: the pool is left and the list returned
\* (process_notams_individual drops the None slots first).
XlReturn ==
    /\ x_pc = "running"
    /\ x_collected = DOMAIN x_tasks
    /\ x_results' =
         IF x_entry = "individual"
         THEN SelectSeq(x_results, LAMBDA r : r # NoResult)
         ELSE x_results
    /\ x_pc' = "done"
    /\ UNCHANGED << x_entry, x_requests, gemini_enabled, cache, x_notams,
                    x_tasks, x_collected >>
    /\ UNCHANGED notXlVars


\* ================================================ time zones and local time
\* Zone names ('UTC+9'), offsets ('+09:00'), timestamps and displays are
\* sequences of characters, so that slicing, startswith, zfill, int() and
\* the format specifications are computed as the source computes them.
\* The empty sequence stands for '' and for None (both are falsy).
Digits == << "0", "1", "2", "3", "4", "5", "6", "7", "8", "9" >>

IsDigits(s) == Len(s) > 0 /\ \A i \in 1..Len(s) : s[i] \in Range(Digits)

DigitVal(c) == (CHOOSE k \in 1..10 : Digits[k] = c) - 1

\* int(s) for a string of digits
RECURSIVE ToInt(_)
ToInt(s) ==
    IF Len(s) = 0 THEN 0
    ELSE ToInt(SubSeq(s, 1, Len(s) - 1)) * 10 + DigitVal(s[Len(s)])

\* str(n), n >= 0
RECURSIVE Decimal(_)
Decimal(n) ==
    IF n < 10 THEN << Digits[n + 1] >>
    ELSE Decimal(n \div 10) \o << Digits[(n % 10) + 1] >>

\* f"{n:02d}", n >= 0
Fmt02d(n) == IF n < 10 THEN << "0" >> \o Decimal(n) ELSE Decimal(n)

\* f"{n:+d}"
FmtSigned(n) == IF n < 0 THEN << "-" >> \o Decimal(0 - n) ELSE << "+" >> \o Decimal(n)

StartsWith(s, p) == Len(s) >= Len(p) /\ SubSeq(s, 1, Len(p)) = p

\* s[a:b] and s[a:]
PySlice(s, a, b) == SubSeq(s, a + 1, IF b < Len(s) THEN b ELSE Len(s))
PyFrom(s, a) == SubSeq(s, a + 1, Len(s))

\* s.zfill(2) for an unsigned s
ZFill2(s) ==
    IF Len(s) >= 2 THEN s
    ELSE IF Len(s) = 1 THEN << "0" >> \o s ELSE << "0", "0" >>

UTC_PLUS == << "U", "T", "C", "+" >>
UTC_MINUS == << "U", "T", "C", "-" >>
UTC_ZERO == UTC_PLUS \o << "0" >>
COLON_00 == << ":", "0", "0" >>
PLUS_00_00 == << "+", "0", "0" >> \o COLON_00

UtcPlus(n) == UTC_PLUS \o Decimal(n)
UtcMinus(n) == UTC_MINUS \o Decimal(n)

\* '+09:00' form: sign, two digits, colon, two digits
OffsetForm(s) ==
    /\ Len(s) = 6
    /\ s[1] \in { "+", "-" }
    /\ IsDigits(SubSeq(s, 2, 3))
    /\ s[4] = ":"
    /\ IsDigits(SubSeq(s, 5, 6))

\* ---------------------------------------------------------------- icao.py
\* The clock, as far as the two daylight-saving rules read it:
\*   "winter"  January        "march"  1 March        "summer"  July
Seasons == { "winter", "march", "summer" }

\* icao.is_dst_active: second Sunday of March .. first Sunday of November
is_dst_active(clock) == clock = "summer"

\* NOTAMFilter._apply_dst_if_needed: 3 <= current_month <= 10
SimpleDstActive(clock) == clock \in { "march", "summer" }

\* icao.get_timezone_by_fir_pattern
get_timezone_by_fir_pattern(icao_code, dst_active) ==
    IF Len(icao_code) < 2 THEN UTC_ZERO
    ELSE LET p == SubSeq(icao_code, 1, 2) IN
      CASE p \in { <<"R","K">>, <<"R","J">>, <<"R","O">>, <<"W","B">> } -> UtcPlus(9)
        [] p \in { <<"R","C">>, <<"R","P">>, <<"Z","B">>, <<"Z","S">>, <<"Z","G">>,
                   <<"Z","U">>, <<"Z","Y">>, <<"Z","W">>, <<"Z","L">>, <<"V","H">>,
                   <<"V","M">>, <<"W","A">>, <<"W","S">> } -> UtcPlus(8)
        [] p \in { <<"V","T">>, <<"V","V">>, <<"W","I">> } -> UtcPlus(7)
        [] p \in { <<"K","S">>, <<"K","L">>, <<"C","Z">> } ->
               IF dst_active THEN UtcMinus(7) ELSE UtcMinus(8)
        [] p = <<"K","D">> -> IF dst_active THEN UtcMinus(6) ELSE UtcMinus(7)
        [] p = <<"K","M">> -> IF dst_active THEN UtcMinus(5) ELSE UtcMinus(6)
        [] p \in { <<"K","E">>, <<"C","Y">> } ->
               IF dst_active THEN UtcMinus(4) ELSE UtcMinus(5)
        [] p = <<"K","H">> -> UtcMinus(10)
        [] p = <<"P","A">> -> IF dst_active THEN UtcMinus(8) ELSE UtcMinus(9)
        [] p \in { <<"L","F">>, <<"E","D">> } ->
               IF dst_active THEN UtcPlus(2) ELSE UtcPlus(1)
        [] p = <<"E","G">> -> IF dst_active THEN UtcPlus(1) ELSE UTC_ZERO
        [] p = <<"Y","B">> -> UtcPlus(10)
        [] p \in { <<"Y","S">>, <<"Y","M">> } ->
               IF dst_active THEN UtcPlus(11) ELSE UtcPlus(10)
        [] OTHER -> UTC_ZERO

\* utc_offsets of get_utc_offset: the single-letter region table
utc_offsets(first_letter) ==
    CASE first_letter = "A" -> UtcPlus(2)
      [] first_letter \in { "B", "O", "U" } -> UtcPlus(3)
      [] first_letter = "C" -> UtcPlus(4)
      [] first_letter \in { "D", "V" } -> UtcPlus(5)
      [] first_letter = "E" -> UtcPlus(6)
      [] first_letter \in { "F", "W" } -> UtcPlus(7)
      [] first_letter \in { "G", "Z" } -> UtcPlus(8)
      [] first_letter \in { "H", "R" } -> UtcPlus(9)
      [] first_letter \in { "I", "Y" } -> UtcPlus(10)
      [] first_letter = "J" -> UtcPlus(11)
      [] first_letter \in { "M", "N" } -> UtcPlus(12)
      [] first_letter = "K" -> UtcMinus(5)
      [] first_letter = "L" -> UtcPlus(1)
      [] first_letter = "P" -> UtcMinus(9)
      [] first_letter = "S" -> UtcMinus(3)
      [] first_letter = "T" -> UtcMinus(4)
      [] OTHER -> UTC_ZERO

\* Answers of the live lookup service: a failure, or currentUtcOffset.seconds
ApiFailure == [ ok |-> FALSE, seconds |-> 0 ]
ApiAnswers ==
    { ApiFailure } \cup { [ ok |-> TRUE, seconds |-> s ] : s \in { 0, 32400, 0 - 25200 } }

\* airports with an entry in get_coordinates_by_icao (of the codes used here)
airport_coordinates == { KSEA, RKSI }

\* icao.get_utc_offset_api: None (empty) when there are no coordinates or the
\* request fails, else 'UTC+9' / 'UTC+5:30'
get_utc_offset_api(icao_code, api) ==
    IF icao_code \notin airport_coordinates \/ ~api.ok THEN << >>
    ELSE LET hours == api.seconds \div 3600
             rest == api.seconds % 3600
             minutes == rest \div 60
         IN  IF minutes = 0
             THEN << "U", "T", "C" >> \o FmtSigned(hours)
             ELSE << "U", "T", "C" >> \o FmtSigned(hours) \o << ":" >> \o Fmt02d(minutes)

\* The airport time-zone CSV as found on disk: absent, unreadable, or a table
\* ident -> time_zone.
NoCsvFile == [ exists |-> FALSE, readable |-> FALSE, rows |-> << >> ]
BadCsvFile == [ exists |-> TRUE, readable |-> FALSE, rows |-> << >> ]
CsvFileA ==
    [ exists |-> TRUE, readable |-> TRUE,
      rows |-> [ c \in { KSEA, KPDX, NZAA } |->
                   IF c = NZAA THEN UtcPlus(12) ELSE UtcMinus(7) ] ]
CsvFileB ==
    [ exists |-> TRUE, readable |-> TRUE,
      rows |-> [ c \in { RKSI, KPDX } |->
                   IF c = RKSI THEN UtcPlus(9) ELSE << "U", "T", "C" >> ] ]
CsvFiles == { NoCsvFile, BadCsvFile, CsvFileA, CsvFileB }

\* icao._load_airport_timezones on the module state [timezones, loaded, reads]
\* ("reads" counts how often the file was opened and read).
load_airport_timezones(file, st) ==
    IF st.loaded THEN st
    ELSE IF ~file.exists THEN st
    ELSE IF file.readable
         THEN [ timezones |->
                    [ c \in DOMAIN st.timezones \cup DOMAIN file.rows |->
                        IF c \in DOMAIN file.rows THEN file.rows[c]
                        ELSE st.timezones[c] ],
                loaded |-> st.loaded,
                reads |-> st.reads + 1 ]
         ELSE [ timezones |-> st.timezones, loaded |-> TRUE, reads |-> st.reads + 1 ]

\* icao.get_utc_offset; returns the offset, the source that gave it and the
\* module state it leaves.
get_utc_offset(icao_code, use_api, api, clock, file, st) ==
    IF Len(icao_code) < 2
    THEN [ result |-> UTC_ZERO, source |-> "default", st |-> st ]
    ELSE
    LET api_result == IF use_api THEN get_utc_offset_api(icao_code, api) ELSE << >>
        fir_timezone == get_timezone_by_fir_pattern(icao_code, is_dst_active(clock))
        st2 == load_airport_timezones(file, st)
    IN  IF api_result # << >> /\ api_result # UTC_ZERO
        THEN [ result |-> api_result, source |-> "live", st |-> st ]
        ELSE IF fir_timezone # UTC_ZERO
        THEN [ result |-> fir_timezone, source |-> "pattern", st |-> st ]
        ELSE IF icao_code \in DOMAIN st2.timezones
        THEN [ result |-> st2.timezones[icao_code], source |-> "csv", st |-> st2 ]
        ELSE IF utc_offsets(icao_code[1]) # UTC_ZERO
        THEN [ result |-> utc_offsets(icao_code[1]), source |-> "letter", st |-> st2 ]
        ELSE [ result |-> UTC_ZERO, source |-> "default", st |-> st2 ]

\* ------------------------------------------------- NOTAMFilter time zones
\* NOTAMFilter._load_airports_data: ident -> utc_offset
load_airports_data(file) ==
    IF ~file.exists \/ ~file.readable THEN << >>
    ELSE [ c \in DOMAIN file.rows |->
             LET time_zone == file.rows[c] IN
             IF StartsWith(time_zone, UTC_PLUS)
             THEN << "+" >> \o ZFill2(PyFrom(time_zone, 4)) \o COLON_00
             ELSE IF StartsWith(time_zone, UTC_MINUS)
             THEN << "-" >> \o ZFill2(PyFrom(time_zone, 4)) \o COLON_00
             ELSE PLUS_00_00 ]

\* NOTAMFilter._apply_dst_if_needed
apply_dst_if_needed(airport_code, timezone_offset, clock) ==
    IF airport_code[1] \in { "K", "C", "E", "L" } /\ ~SimpleDstActive(clock)
       /\ (StartsWith(timezone_offset, << "-" >>) \/ StartsWith(timezone_offset, << "+" >>))
       /\ IsDigits(PySlice(timezone_offset, 1, 3))
       /\ IsDigits(PySlice(timezone_offset, 4, 6))
    THEN LET offset_hours == ToInt(PySlice(timezone_offset, 1, 3))
             offset_minutes == ToInt(PySlice(timezone_offset, 4, 6))
             new_hours == IF offset_hours - 1 < 0 THEN 0 ELSE offset_hours - 1
         IN  << timezone_offset[1] >> \o Fmt02d(new_hours) \o << ":" >> \o Fmt02d(offset_minutes)
    ELSE timezone_offset

\* the prefix table that ends NOTAMFilter._calculate_timezone
PrefixDefault(airport_code) ==
    LET p == SubSeq(airport_code, 1, 2) IN
    CASE p \in { <<"R","K">>, <<"R","J">> } -> << "+", "0", "9" >> \o COLON_00
      [] p \in { <<"Z","B">>, <<"Z","G">> } -> << "+", "0", "8" >> \o COLON_00
      [] p = <<"V","V">> -> << "+", "0", "7" >> \o COLON_00
      [] p \in { <<"K","S">>, <<"K","L">> } -> << "-", "0", "8" >> \o COLON_00
      [] p = <<"K","D">> -> << "-", "0", "7" >> \o COLON_00
      [] p = <<"K","E">> -> << "-", "0", "5" >> \o COLON_00
      [] airport_code[1] = "K" -> << "-", "0", "6" >> \o COLON_00
      [] OTHER -> PLUS_00_00

\* NOTAMFilter._calculate_timezone
calculate_timezone(airport_code, data, clock, file, st) ==
    IF airport_code \in DOMAIN data
    THEN [ result |-> apply_dst_if_needed(airport_code, data[airport_code], clock),
           source |-> "csv", st |-> st ]
    ELSE
    LET adv == get_utc_offset(airport_code, FALSE, ApiFailure, clock, file, st)
        advanced_timezone == adv.result
    IN  IF advanced_timezone # << >> /\ advanced_timezone # UTC_ZERO
           /\ StartsWith(advanced_timezone, UTC_PLUS)
        THEN [ result |-> << "+" >> \o PyFrom(advanced_timezone, 4) \o COLON_00,
               source |-> adv.source, st |-> adv.st ]
        ELSE IF advanced_timezone # << >> /\ advanced_timezone # UTC_ZERO
           /\ StartsWith(advanced_timezone, UTC_MINUS)
        THEN [ result |-> << "-" >> \o PyFrom(advanced_timezone, 4) \o COLON_00,
               source |-> adv.source, st |-> adv.st ]
        ELSE [ result |-> PrefixDefault(airport_code),
               source |-> IF PrefixDefault(airport_code) = PLUS_00_00
                          THEN "default" ELSE "prefix",
               st |-> adv.st ]

\* NOTAMFilter.get_timezone on the cache; returns the offset with the cache
\* and module state it leaves.  A cache entry keeps the source next to the
\* offset.
get_timezone(airport_code, tzcache, data, clock, file, st) ==
    IF airport_code \in DOMAIN tzcache
    THEN [ result |-> tzcache[airport_code].result, cache |-> tzcache, st |-> st ]
    ELSE LET r == calculate_timezone(airport_code, data, clock, file, st) IN
         [ result |-> r.result,
           cache |-> [ c \in DOMAIN tzcache \cup { airport_code } |->
                         IF c = airport_code
                         THEN [ result |-> r.result, source |-> r.source ]
                         ELSE tzcache[c] ],
           st |-> r.st ]

\* ------------------------------------------------------------- datetimes
IsLeap(y) == (y % 4 = 0 /\ y % 100 # 0) \/ y % 400 = 0

DaysInMonth(y, m) ==
    IF m = 2 THEN (IF IsLeap(y) THEN 29 ELSE 28)
    ELSE IF m \in { 4, 6, 9, 11 } THEN 30 ELSE 31

\* datetime(year, month, day, hour, minute): a record, or Raised when the
\* constructor raises ValueError
Raised == [ raised |-> TRUE ]

datetime(year, month, day, hour, minute) ==
    IF /\ month \in 1..12
       /\ day >= 1 /\ day <= DaysInMonth(year, month)
       /\ hour \in 0..23 /\ minute \in 0..59
    THEN [ year |-> year, month |-> month, day |-> day, hour |-> hour,
           minute |-> minute ]
    ELSE Raised

month_map ==
    << <<"J","A","N">>, <<"F","E","B">>, <<"M","A","R">>, <<"A","P","R">>,
       <<"M","A","Y">>, <<"J","U","N">>, <<"J","U","L">>, <<"A","U","G">>,
       <<"S","E","P">>, <<"O","C","T">>, <<"N","O","V">>, <<"D","E","C">> >>

\* NOTAMFilter._parse_datetime_string ('30MAY24', '01:15')
parse_datetime_string(date_str, time_str) ==
    LET month_str == PySlice(date_str, 2, 5) IN
    IF month_str \notin Range(month_map) THEN Raised
    ELSE datetime(ToInt(<< "2", "0" >> \o PySlice(date_str, 5, 7)),
                  CHOOSE m \in 1..12 : month_map[m] = month_str,
                  ToInt(PySlice(date_str, 0, 2)),
                  ToInt(PySlice(time_str, 0, 2)),
                  ToInt(PySlice(time_str, 3, 5)))

\* NOTAMFilter._parse_b_c_time ('2503200606')
parse_b_c_time(time_str) ==
    datetime(ToInt(<< "2", "0" >> \o PySlice(time_str, 0, 2)),
             ToInt(PySlice(time_str, 2, 4)),
             ToInt(PySlice(time_str, 4, 6)),
             ToInt(PySlice(time_str, 6, 8)),
             ToInt(PySlice(time_str, 8, 10)))

\* dt.strftime('%Y-%m-%dT%H:%M:%SZ')
IsoZ(dt) ==
    Decimal(dt.year) \o << "-" >> \o Fmt02d(dt.month) \o << "-" >> \o Fmt02d(dt.day)
    \o << "T" >> \o Fmt02d(dt.hour) \o << ":" >> \o Fmt02d(dt.minute)
    \o << ":", "0", "0", "Z" >>

\* datetime.fromisoformat(s.replace('Z', '+00:00')) for 'YYYY-MM-DDTHH:MM:SSZ';
\* any other text of this model ('PERM', 'UFN') raises ValueError
fromisoformat(s) ==
    IF /\ Len(s) = 20
       /\ IsDigits(PySlice(s, 0, 4)) /\ s[5] = "-"
       /\ IsDigits(PySlice(s, 5, 7)) /\ s[8] = "-"
       /\ IsDigits(PySlice(s, 8, 10)) /\ s[11] = "T"
       /\ IsDigits(PySlice(s, 11, 13)) /\ s[14] = ":"
       /\ IsDigits(PySlice(s, 14, 16)) /\ s[17] = ":"
       /\ IsDigits(PySlice(s, 17, 19)) /\ s[20] = "Z"
    THEN datetime(ToInt(PySlice(s, 0, 4)), ToInt(PySlice(s, 5, 7)),
                  ToInt(PySlice(s, 8, 10)), ToInt(PySlice(s, 11, 13)),
                  ToInt(PySlice(s, 14, 16)))
    ELSE Raised

\* dt + timedelta(minutes = delta), for less than a day either way
NextDay(dt) ==
    IF dt.day < DaysInMonth(dt.year, dt.month)
    THEN [ dt EXCEPT !.day = dt.day + 1 ]
    ELSE IF dt.month < 12
    THEN [ dt EXCEPT !.day = 1, !.month = dt.month + 1 ]
    ELSE [ dt EXCEPT !.day = 1, !.month = 1, !.year = dt.year + 1 ]

PrevDay(dt) ==
    IF dt.day > 1 THEN [ dt EXCEPT !.day = dt.day - 1 ]
    ELSE IF dt.month > 1
    THEN [ dt EXCEPT !.day = DaysInMonth(dt.year, dt.month - 1), !.month = dt.month - 1 ]
    ELSE [ dt EXCEPT !.day = 31, !.month = 12, !.year = dt.year - 1 ]

PlusMinutes(dt, delta) ==
    LET total == dt.hour * 60 + dt.minute + delta
        day   == IF total < 0 THEN PrevDay(dt)
                 ELSE IF total >= 1440 THEN NextDay(dt) ELSE dt
        t     == total % 1440
    IN  [ day EXCEPT !.hour = t \div 60, !.minute = t % 60 ]

\* dt.strftime('%m/%d %H:%M')
MonthDayTime(dt) ==
    Fmt02d(dt.month) \o << "/" >> \o Fmt02d(dt.day) \o << " " >>
    \o Fmt02d(dt.hour) \o << ":" >> \o Fmt02d(dt.minute)

UFN == << "U", "F", "N" >>
PERM == << "P", "E", "R", "M" >>

\* ------------------------------------------------- NOTAMFilter time parsing
\* A block is its header line 'START - UNTIL AIRPORT NUMBER' (kind names the
\* form of UNTIL: "UFN", "PERM" or "RANGE") and the digits or text that
\* follow 'B)' and 'C)' in its body (empty when the field is not there).
\* NOTAMFilter._parse_time_info; returns the keys it sets (empty = not set).
parse_time_info(block) ==
    LET start_dt == parse_datetime_string(block.start_date, block.start_time)
        end_dt == parse_datetime_string(block.end_date, block.end_time)
        b_match == Len(block.b_field) >= 10 /\ IsDigits(PySlice(block.b_field, 0, 10))
        c_match == Len(block.c_field) >= 10 /\ IsDigits(PySlice(block.c_field, 0, 10))
        b_dt == parse_b_c_time(PySlice(block.b_field, 0, 10))
        c_dt == parse_b_c_time(PySlice(block.c_field, 0, 10))
    IN  IF block.kind = "UFN" /\ start_dt # Raised
        THEN [ effective_time |-> IsoZ(start_dt), expiry_time |-> UFN ]
        ELSE IF block.kind = "RANGE" /\ start_dt # Raised /\ end_dt # Raised
        THEN [ effective_time |-> IsoZ(start_dt), expiry_time |-> IsoZ(end_dt) ]
        ELSE [ effective_time |-> IF b_match /\ b_dt # Raised THEN IsoZ(b_dt) ELSE << >>,
               expiry_time |-> IF c_match /\ c_dt # Raised THEN IsoZ(c_dt) ELSE << >> ]

\* NOTAMFilter._parse_notam_section, as far as the time and airport keys go
parse_notam_section(block) ==
    [ airport_code |-> block.airport,
      effective_time |-> parse_time_info(block).effective_time,
      expiry_time |-> parse_time_info(block).expiry_time ]

\* F(v) with v evaluated once
Bind(v, F(_)) == CHOOSE r \in { F(x) : x \in { v } } : TRUE

\* int(timezone_offset[1:3]) and int(timezone_offset[4:6]) as signed minutes;
\* Raised when int() raises ValueError
OffsetDelta(timezone_offset) ==
    IF /\ IsDigits(PySlice(timezone_offset, 1, 3))
       /\ IsDigits(PySlice(timezone_offset, 4, 6))
    THEN [ minutes |->
             (IF StartsWith(timezone_offset, << "+" >>) THEN 1 ELSE 0 - 1)
             * (ToInt(PySlice(timezone_offset, 1, 3)) * 60
                + ToInt(PySlice(timezone_offset, 4, 6))) ]
    ELSE Raised

\* The same body without its try/except: the ValueError of int() or of
\* fromisoformat leaves the function.
LocalTimeDisplayMut(effective_time, expiry_time, timezone_offset) ==
    IF effective_time = << >> THEN << >>
    ELSE IF fromisoformat(effective_time) = Raised THEN Raised
    ELSE IF OffsetDelta(timezone_offset) = Raised THEN Raised
    ELSE IF expiry_time = UFN \/ expiry_time = << >> THEN << "?" >>
    ELSE IF fromisoformat(expiry_time) = Raised THEN Raised
    ELSE << "?" >>

\* The body shared by NOTAMFilter.format_notam_time_with_local and
\* NOTAMFilter._generate_local_time_display once the offset is known
\* (records without a D) field); empty = None.
LocalTimeDisplay(effective_time, expiry_time, timezone_offset) ==
    IF effective_time = << >> THEN << >>
    ELSE
    Bind(fromisoformat(effective_time), LAMBDA effective_dt :
    Bind(OffsetDelta(timezone_offset), LAMBDA offset_delta :
        IF effective_dt = Raised \/ offset_delta = Raised THEN << >>
        ELSE
        Bind(MonthDayTime(PlusMinutes(effective_dt, offset_delta.minutes)),
             LAMBDA local_start :
        Bind(<< " ", "(" >> \o timezone_offset \o << ")" >>, LAMBDA tail :
            IF expiry_time = UFN
            THEN local_start \o << " ", "-", " " >> \o UFN \o tail
            ELSE IF expiry_time # << >>
            THEN Bind(fromisoformat(expiry_time), LAMBDA expiry_dt :
                    IF expiry_dt = Raised THEN << >>
                    ELSE local_start \o << " ", "-", " " >>
                         \o MonthDayTime(PlusMinutes(expiry_dt, offset_delta.minutes))
                         \o tail)
            ELSE local_start \o tail))))

\* ------------------------------------------------ the time handlers' state
\* Header dates and times offered to the parser.
D_09JUL25 == << "0", "9", "J", "U", "L", "2", "5" >>
D_30FEB25 == << "3", "0", "F", "E", "B", "2", "5" >>
D_25SEP25 == << "2", "5", "S", "E", "P", "2", "5" >>
D_31SEP25 == << "3", "1", "S", "E", "P", "2", "5" >>
T_1600 == << "1", "6", ":", "0", "0" >>
T_0900 == << "0", "9", ":", "0", "0" >>
B_2507091600 == << "2", "5", "0", "7", "0", "9", "1", "6", "0", "0" >>
B_2513091600 == << "2", "5", "1", "3", "0", "9", "1", "6", "0", "0" >>
B_2509250900 == << "2", "5", "0", "9", "2", "5", "0", "9", "0", "0" >>

TimeAirports == { RKSI, KSEA, KPDX, NZAA }
YSSY == << "Y", "S", "S", "Y" >>
\* codes given to icao.get_utc_offset directly
OffsetAirports == TimeAirports \cup { YSSY }

TimeBlock(kind, sd, st, ed, et, airport, b, c) ==
    [ kind |-> kind, start_date |-> sd, start_time |-> st, end_date |-> ed,
      end_time |-> et, airport |-> airport, b_field |-> b, c_field |-> c ]

\* Blocks as the segmenter hands them over: every block starts with a header.
TimeBlocks ==
    { TimeBlock("UFN", sd, T_1600, << >>, << >>, a, << >>, << >>) :
        sd \in { D_09JUL25, D_30FEB25 }, a \in TimeAirports }
    \cup
    { TimeBlock("PERM", D_09JUL25, T_1600, << >>, << >>, a, << >>, << >>) :
        a \in TimeAirports }
    \cup
    { TimeBlock("RANGE", D_09JUL25, T_1600, ed, T_0900, a, << >>, << >>) :
        ed \in { D_25SEP25, D_31SEP25 }, a \in { RKSI, NZAA } }
    \cup
    { TimeBlock("PERM", D_09JUL25, T_1600, << >>, << >>, NZAA, b, c) :
        b \in { B_2507091600, B_2513091600 },
        c \in { << >>, PERM, B_2509250900 } }

NoRecord ==
    [ airport_code |-> << >>, effective_time |-> << >>, expiry_time |-> << >>,
      local_time_display |-> << >> ]

NoBlock == TimeBlock("", << >>, << >>, << >>, << >>, << >>, << >>, << >>)

NoFormatCall ==
    [ effective_time |-> << >>, expiry_time |-> << >>, airport_code |-> << >>,
      timezone_offset |-> << >>, result |-> << >> ]

NoOffsetCall ==
    [ icao_code |-> << >>, use_api |-> FALSE, api |-> ApiFailure,
      result |-> << >>, source |-> "" ]

IcaoState ==
    [ timezones |-> airport_timezones, loaded |-> csv_loaded, reads |-> csv_reads ]

SetIcaoState(st) ==
    /\ airport_timezones' = st.timezones
    /\ csv_loaded' = st.loaded
    /\ csv_reads' = st.reads

\* NOTAMFilter() and the import of icao on a machine with the given CSV file
TimeInitVars(file, season) ==
    /\ csv_file = file
    /\ now = season
    /\ airports_data = load_airports_data(file)
    /\ timezone_cache = << >>
    /\ airport_timezones = << >>
    /\ csv_loaded = FALSE
    /\ csv_reads = 0
    /\ t_pc = "idle"
    /\ t_calls = 0
    /\ t_block = NoBlock
    /\ notam_dict = NoRecord
    /\ fmt_call = NoFormatCall
    /\ tz_call = NoOffsetCall

\* self._parse_notam_section(section) for the next block of a bulletin
TimeParseSection ==
    /\ t_pc = "idle"
    /\ t_calls < MaxCalls
    /\ \E block \in TimeBlocks : t_block' = block
    /\ t_pc' = "parsed"
    /\ t_calls' = t_calls + 1
    /\ notam_dict' = NoRecord
    /\ fmt_call' = NoFormatCall
    /\ tz_call' = NoOffsetCall
    /\ UNCHANGED << csv_file, now, airports_data, timezone_cache,
                    airport_timezones, csv_loaded, csv_reads >>
    /\ UNCHANGED notTimeVars

\* notam_dict of _filter_airport_notams, with local_time_display attached
\* when both times are there and the display is not None
TimeBuildRecord ==
    /\ t_pc = "parsed"
    /\ \E parsed_notam \in { parse_notam_section(t_block) } :
       \E tz \in { get_timezone(parsed_notam.airport_code, timezone_cache,
                                airports_data, now, csv_file, IcaoState) } :
       LET both == parsed_notam.effective_time # << >> /\ parsed_notam.expiry_time # << >>
       IN  /\ notam_dict' =
                [ airport_code |-> parsed_notam.airport_code,
                  effective_time |-> parsed_notam.effective_time,
                  expiry_time |-> parsed_notam.expiry_time,
                  local_time_display |->
                      IF both
                      THEN LocalTimeDisplay(parsed_notam.effective_time,
                                            parsed_notam.expiry_time, tz.result)
                      ELSE << >> ]
           /\ IF both
              THEN timezone_cache' = tz.cache /\ SetIcaoState(tz.st)
              ELSE UNCHANGED << timezone_cache, airport_timezones, csv_loaded,
                                csv_reads >>
    /\ t_pc' = "built"
    /\ UNCHANGED << csv_file, now, airports_data, t_calls, t_block, fmt_call,
                    tz_call >>
    /\ UNCHANGED notTimeVars

\* upload_file: notam['local_time_display'] = format_notam_time_with_local(...)
\* for a record with both times
TimeAppFormat ==
    /\ t_pc = "built"
    /\ \E tz \in { get_timezone(notam_dict.airport_code, timezone_cache,
                                airports_data, now, csv_file, IcaoState) } :
       LET both == notam_dict.effective_time # << >> /\ notam_dict.expiry_time # << >>
       IN  IF both
           THEN /\ notam_dict' =
                     [ notam_dict EXCEPT !.local_time_display =
                         LocalTimeDisplay(notam_dict.effective_time,
                                          notam_dict.expiry_time, tz.result) ]
                /\ timezone_cache' = tz.cache
                /\ SetIcaoState(tz.st)
           ELSE UNCHANGED << notam_dict, timezone_cache, airport_timezones,
                             csv_loaded, csv_reads >>
    /\ t_pc' = "idle"
    /\ UNCHANGED << csv_file, now, airports_data, t_calls, t_block, fmt_call,
                    tz_call >>
    /\ UNCHANGED notTimeVars

\* Arguments (effective_time, expiry_time, airport_code) offered to the
\* formatter.
FormatArguments ==
    { << IsoZ(datetime(2025, 12, 31, 20, 0)), expiry_time, airport_code >> :
        expiry_time \in { << >>, UFN, PERM, IsoZ(datetime(2026, 2, 28, 23, 30)) },
        airport_code \in TimeAirports }
    \cup { << << >>, UFN, RKSI >> }

\* notam_filter.format_notam_time_with_local(effective, expiry, airport)
TimeFormatCall ==
    /\ t_pc = "idle"
    /\ t_calls < MaxCalls
    /\ \E args \in FormatArguments :
        \E tz \in { get_timezone(args[3], timezone_cache, airports_data,
                                 now, csv_file, IcaoState) } :
        LET effective_time == args[1]
            expiry_time == args[2]
            airport_code == args[3]
        IN  IF effective_time = << >>
            THEN /\ fmt_call' = [ effective_time |-> effective_time,
                                  expiry_time |-> expiry_time,
                                  airport_code |-> airport_code,
                                  timezone_offset |-> << >>, result |-> << >> ]
                 /\ UNCHANGED << timezone_cache, airport_timezones, csv_loaded,
                                 csv_reads >>
            ELSE /\ fmt_call' = [ effective_time |-> effective_time,
                                  expiry_time |-> expiry_time,
                                  airport_code |-> airport_code,
                                  timezone_offset |-> tz.result,
                                  result |-> LocalTimeDisplay(effective_time,
                                                expiry_time, tz.result) ]
                 /\ timezone_cache' = tz.cache
                 /\ SetIcaoState(tz.st)
    /\ t_calls' = t_calls + 1
    /\ t_block' = NoBlock
    /\ notam_dict' = NoRecord
    /\ tz_call' = NoOffsetCall
    /\ UNCHANGED << csv_file, now, airports_data, t_pc >>
    /\ UNCHANGED notTimeVars

\* icao.get_utc_offset(icao_code, use_api)
TimeResolveOffset ==
    /\ t_pc = "idle"
    /\ t_calls < MaxCalls
    /\ \E icao_code \in OffsetAirports, use_api \in BOOLEAN, api \in ApiAnswers :
        \* the service is asked only for a code with coordinates
        /\ (~use_api \/ icao_code \notin airport_coordinates => api = ApiFailure)
        /\ \E r \in { get_utc_offset(icao_code, use_api, api, now, csv_file,
                                       IcaoState) } :
               /\ tz_call' = [ icao_code |-> icao_code, use_api |-> use_api,
                               api |-> api, result |-> r.result,
                               source |-> r.source ]
               /\ SetIcaoState(r.st)
    /\ t_calls' = t_calls + 1
    /\ t_block' = NoBlock
    /\ notam_dict' = NoRecord
    /\ fmt_call' = NoFormatCall
    /\ UNCHANGED << csv_file, now, airports_data, timezone_cache, t_pc >>
    /\ UNCHANGED notTimeVars


\* ======================================== UPRParser (route text parsing)
UpperLetters ==
    << "A", "B", "C", "D", "E", "F", "G", "H", "I", "J", "K", "L", "M",
       "N", "O", "P", "Q", "R", "S", "T", "U", "V", "W", "X", "Y", "Z" >>
LowerLetters ==
    << "a", "b", "c", "d", "e", "f", "g", "h", "i", "j", "k", "l", "m",
       "n", "o", "p", "q", "r", "s", "t", "u", "v", "w", "x", "y", "z" >>

IsUpperLetter(c) == c \in Range(UpperLetters)
IsDigit(c) == c \in Range(Digits)

\* str.upper()
UpperChar(c) ==
    IF c \in Range(LowerLetters)
    THEN UpperLetters[CHOOSE k \in 1..26 : LowerLetters[k] = c]
    ELSE c
PyUpper(s) == [ k \in 1..Len(s) |-> UpperChar(s[k]) ]

\* _parse_single_coordinate: re.match anchors only at the start, so a
\* longer token with a coordinate prefix matches.  Tokens carry no decimal
\* point, the optional fractions of the patterns match nothing.
\* Result: << >> for None, else << <<lat, lon>> >> in arc-seconds.
parse_single_coordinate(coord_str) ==
    LET s == PyUpper(coord_str) IN
    IF /\ Len(s) >= 7
       /\ s[1] \in { "N", "S" } /\ IsDigit(s[2]) /\ IsDigit(s[3])
       /\ s[4] \in { "E", "W" } /\ IsDigit(s[5]) /\ IsDigit(s[6]) /\ IsDigit(s[7])
    THEN LET lat == ToInt(SubSeq(s, 2, 3)) * 3600
             lon == ToInt(SubSeq(s, 5, 7)) * 3600
         IN  << << IF s[1] = "S" THEN 0 - lat ELSE lat,
                   IF s[4] = "W" THEN 0 - lon ELSE lon >> >>
    ELSE IF /\ Len(s) >= 7
            /\ IsDigit(s[1]) /\ IsDigit(s[2]) /\ s[3] \in { "N", "S" }
            /\ IsDigit(s[4]) /\ IsDigit(s[5]) /\ IsDigit(s[6]) /\ s[7] \in { "E", "W" }
    THEN LET lat == ToInt(SubSeq(s, 1, 2)) * 3600
             lon == ToInt(SubSeq(s, 4, 6)) * 3600
         IN  << << IF s[3] = "S" THEN 0 - lat ELSE lat,
                   IF s[7] = "W" THEN 0 - lon ELSE lon >> >>
    ELSE << >>

\* ^[A-Z]\d{3}$
IsRouteCode(segment) ==
    /\ Len(segment) = 4
    /\ IsUpperLetter(segment[1])
    /\ \A k \in 2..4 : IsDigit(segment[k])

\* ^[A-Z]{3,5}$
IsWaypointName(segment) ==
    /\ Len(segment) \in 3..5
    /\ \A k \in 1..Len(segment) : IsUpperLetter(segment[k])

\* ^[A-Z]{4}$
IsAirportCode(segment) ==
    /\ Len(segment) = 4
    /\ \A k \in 1..4 : IsUpperLetter(segment[k])

EmptyRoute ==
    [ waypoints |-> << >>, coordinates |-> << >>, route_codes |-> << >>,
      full_route |-> << >> ]

\* the body of "for segment in segments" in parse_route_with_waypoints
ParseSegment(result, segment) ==
    LET coord == parse_single_coordinate(segment) IN
    IF coord # << >>
    THEN [ result EXCEPT
             !.coordinates = Append(@, coord[1]),
             !.full_route = Append(@, [ type |-> "coordinate", value |-> segment,
                                        parsed |-> coord[1] ]) ]
    ELSE IF IsRouteCode(segment)
    THEN [ result EXCEPT
             !.route_codes = Append(@, segment),
             !.full_route = Append(@, [ type |-> "route_code", value |-> segment ]) ]
    ELSE IF IsWaypointName(segment)
    THEN [ result EXCEPT
             !.waypoints = Append(@, segment),
             !.full_route = Append(@, [ type |-> "waypoint", value |-> segment ]) ]
    ELSE IF IsAirportCode(segment)
    THEN [ result EXCEPT
             !.full_route = Append(@, [ type |-> "airport", value |-> segment ]) ]
    ELSE [ result EXCEPT
             !.full_route = Append(@, [ type |-> "other", value |-> segment ]) ]

\* Route tokens, as re.split leaves them (no blanks, no '..'):
Y697 == << "Y", "6", "9", "7" >>
MARNR8 == << "M", "A", "R", "N", "R", "8" >>
N44E160 == << "N", "4", "4", "E", "1", "6", "0" >>
N50W170 == << "N", "5", "0", "W", "1", "7", "0" >>
T_44N160E == << "4", "4", "N", "1", "6", "0", "E" >>
T_n46e170 == << "n", "4", "6", "e", "1", "7", "0" >>
T_rksi == << "r", "k", "s", "i" >>
RouteTokens ==
    { RKSI, KSEA, EGOBA, TOU, Y697, MARNR8, N44E160, N50W170, T_44N160E,
      T_n46e170, T_rksi, << >> }

UprInitVars(segments, pc) ==
    /\ u_segments = segments
    /\ u_pc = pc
    /\ u_i = 0
    /\ u_result = EmptyRoute

\* one iteration of the loop of parse_route_with_waypoints
UprParseSegment ==
    /\ u_pc = "loop"
    /\ u_i < Len(u_segments)
    /\ u_i' = u_i + 1
    /\ u_result' = IF u_segments[u_i + 1] = << >> THEN u_result
                   ELSE ParseSegment(u_result, u_segments[u_i + 1])
    /\ UNCHANGED << u_segments, u_pc, notUprVars >>

\* return result
UprReturn ==
    /\ u_pc = "loop"
    /\ u_i = Len(u_segments)
    /\ u_pc' = "done"
    /\ UNCHANGED << u_segments, u_i, u_result, notUprVars >>

\* ========================================= package airport order (requests)
VVDN == << "V", "V", "D", "N" >>
VVTS == << "V", "V", "T", "S" >>
VVCR == << "V", "V", "C", "R" >>
SECY == << "S", "E", "C", "Y" >>
RKPC == << "R", "K", "P", "C" >>
ROAH == << "R", "O", "A", "H" >>
RJFF == << "R", "J", "F", "F" >>
RORS == << "R", "O", "R", "S" >>
RCTP == << "R", "C", "T", "P" >>
VHHH == << "V", "H", "H", "H" >>
ZJSY == << "Z", "J", "S", "Y" >>
VVNB == << "V", "V", "N", "B" >>
RKRR == << "R", "K", "R", "R" >>
RJJJ == << "R", "J", "J", "J" >>
RCAA == << "R", "C", "A", "A" >>
VHHK == << "V", "H", "H", "K" >>
ZJSA == << "Z", "J", "S", "A" >>
VVHN == << "V", "V", "H", "N" >>
VVHM == << "V", "V", "H", "M" >>

\* self.package_airport_order as __init__ sets it
DefaultAirportOrder ==
    [ package1 |-> << RKSI, VVDN, VVTS, VVCR, SECY >>,
      package2 |-> << RKSI, RKPC, ROAH, RJFF, RORS, RCTP, VHHH, ZJSY, VVNB,
                      VVDN, VVTS >>,
      package3 |-> << RKRR, RJJJ, RCAA, VHHK, ZJSA, VVHN, VVHM >> ]

\* A bulletin text, reduced to what the two functions read: the title, the
\* codes of the DEP:/DEST:/ALTN: lines, of the ERA:/REFILE:/EDTO: lines and of
\* the FIR: line, and the airport codes of its NOTAM sections in text order.
NoPackageText ==
    [ package_type |-> "", dep_dest_altn |-> << >>, era |-> << >>, fir |-> << >>,
      airports |-> << >> ]

\* _detect_package_type
detect_package_type(t) == t.package_type

\* _get_airport_priority
NotListed == 999

RECURSIVE ListIndex(_, _, _)
ListIndex(order_list, airport_code, k) ==
    IF k > Len(order_list) THEN NotListed
    ELSE IF order_list[k] = airport_code THEN k - 1
    ELSE ListIndex(order_list, airport_code, k + 1)

get_airport_priority(order, airport_code, package_type) ==
    IF package_type # "" /\ package_type \in DOMAIN order
    THEN ListIndex(order[package_type], airport_code, 1)
    ELSE NotListed

\* filter_korean_air_notams on a package text: one record per section, then
\* the stable sort by airport priority when the package type is detected
filter_korean_air_notams(t, order) ==
    LET filtered_notams ==
            [ k \in 1..Len(t.airports) |->
                [ airport_code |-> t.airports[k], section |-> k ] ]
        keyed ==
            [ k \in 1..Len(filtered_notams) |->
                [ first |-> get_airport_priority(order, filtered_notams[k].airport_code,
                                                 detect_package_type(t)),
                  notam |-> filtered_notams[k] ] ]
        sorted == SortByFirst(keyed)
    IN  IF detect_package_type(t) # ""
        THEN [ k \in 1..Len(sorted) |-> sorted[k].notam ]
        ELSE filtered_notams

AirportsOf(notams) == { notams[k].airport_code : k \in 1..Len(notams) }

Existing(codes, airports) == SelectSeq(codes, LAMBDA a : a \in airports)

expected_package1 == << RKSI, VVDN, VVCR >>

RECURSIVE AddExpected(_, _, _)
AddExpected(existing, package1_airports, k) ==
    IF k > Len(expected_package1) THEN existing
    ELSE AddExpected(
            IF /\ expected_package1[k] \in Range(package1_airports)
               /\ expected_package1[k] \notin Range(existing)
            THEN Append(existing, expected_package1[k])
            ELSE existing,
            package1_airports, k + 1)

\* extract_package_airports: the table it leaves in self.package_airport_order
extract_package_airports(t, airports, order) ==
    LET existing_package1 ==
            AddExpected(Existing(t.dep_dest_altn, airports), t.dep_dest_altn, 1)
        existing_package2 == Existing(t.era, airports)
        existing_package3 == Existing(t.fir, airports)
    IN  [ package1 |-> IF existing_package1 # << >> THEN existing_package1
                       ELSE order.package1,
          package2 |-> IF existing_package2 # << >> THEN existing_package2
                       ELSE order.package2,
          package3 |-> IF existing_package3 # << >> THEN existing_package3
                       ELSE order.package3 ]

PkgInitVars(pc) ==
    /\ package_airport_order = DefaultAirportOrder
    /\ p_pc = pc
    /\ p_requests = 0
    /\ p_text = NoPackageText
    /\ all_airports = {}
    /\ p_notams = << >>

PackageTypes == { "package1", "package2", "package3", "" }
SectionAirports == { RKSI, VVDN, RKRR }
HeaderLines == { << >>, << RKSI >>, << VVDN, RKSI >>, << VVCR, VVDN >> }

PackageTexts ==
    [ package_type : PackageTypes,
      dep_dest_altn : HeaderLines,
      era : { << >>, << VVDN >> },
      fir : { << >>, << RKRR, RKSI >> },
      airports : SeqsUpTo(SectionAirports, MaxNotams) ]

\* upload_file, 155-160: the first filtering pass and the set of its airports
UploadFilterFirst ==
    /\ p_pc \in { "ready", "done" }
    /\ p_requests < MaxRequests
    /\ \E t \in PackageTexts :
          /\ p_text' = t
          /\ all_airports' = AirportsOf(filter_korean_air_notams(t, package_airport_order))
    /\ p_requests' = p_requests + 1
    /\ p_notams' = << >>
    /\ p_pc' = "filtered"
    /\ UNCHANGED << package_airport_order, notPkgVars >>

\* upload_file, 163
UploadExtractAirports ==
    /\ p_pc = "filtered"
    /\ package_airport_order' =
          extract_package_airports(p_text, all_airports, package_airport_order)
    /\ p_pc' = "extracted"
    /\ UNCHANGED << p_text, all_airports, p_notams, p_requests, notPkgVars >>

\* upload_file, 168: the pass whose records the request returns
UploadFilterAgain ==
    /\ p_pc = "extracted"
    /\ p_notams' = filter_korean_air_notams(p_text, package_airport_order)
    /\ p_pc' = "done"
    /\ UNCHANGED << package_airport_order, p_text, all_airports, p_requests, notPkgVars >>

\* ===================================================== TranslationCache
\* optimized_translator.TranslationCache as the worker threads of
\* process_notams_optimized use it: each worker runs translate_batch, which
\* calls self.cache.get before the request and self.cache.set after it.
\* The class holds no lock, so the statements of concurrent calls interleave.
\* A key stands for f"{operation_type}_{md5(text)}"; the stored results play
\* no part in the bookkeeping and only the key set of self.cache is kept.
\* access_count is kept in insertion order, the order min() iterates in.

\* threads of the pool that use the cache at the same time
Workers == { "w1", "w2" }

\* keys offered to get and set: one more than the cache may hold
CacheKeys == 1..(MaxSize + 1)

\* calls of get and set followed from construction
MaxCacheCalls == MaxCalls + 2

IdleWorker == [ pc |-> "idle", key |-> 0, least |-> 0, last |-> "none" ]

CacheInitVars ==
    /\ tc_cache = {}
    /\ access_count = << >>
    /\ tc_workers = [ w \in Workers |-> IdleWorker ]
    /\ tc_calls = 0

CountKeys(ac) == { ac[i].key : i \in DOMAIN ac }

CountOf(ac, key) == ac[CHOOSE i \in DOMAIN ac : ac[i].key = key].n

\* access_count[key] = n: an existing key keeps its place, a new one is last
SetCount(ac, key, n) ==
    IF key \in CountKeys(ac)
    THEN [ i \in DOMAIN ac |-> IF ac[i].key = key THEN [ key |-> key, n |-> n ]
                                ELSE ac[i] ]
    ELSE Append(ac, [ key |-> key, n |-> n ])

\* del access_count[key]
DelCount(ac, key) == SelectSeq(ac, LAMBDA e : e.key # key)

\* min(self.access_count.items(), key=lambda x: x[1])[0]: the first entry
\* with the smallest count
LeastUsed(ac) ==
    ac[CHOOSE i \in DOMAIN ac :
          \A j \in DOMAIN ac : ac[i].n < ac[j].n \/ (ac[i].n = ac[j].n /\ i <= j)].key

Moved(w, pc, key, least, last) ==
    tc_workers' = [ tc_workers EXCEPT ![w] =
                      [ pc |-> pc, key |-> key, least |-> least, last |-> last ] ]

\* get: "if key in self.cache"; a miss returns None
CacheGetCheck ==
    /\ tc_calls < MaxCacheCalls
    /\ \E w \in Workers, key \in CacheKeys :
          /\ tc_workers[w].pc = "idle"
          /\ IF key \in tc_cache
             THEN Moved(w, "get_count", key, 0, "none")
             ELSE Moved(w, "idle", key, 0, "get_none")
    /\ tc_calls' = tc_calls + 1
    /\ UNCHANGED << tc_cache, access_count, notCacheVars >>

\* get: self.access_count[key] = self.access_count.get(key, 0) + 1
CacheGetCount ==
    /\ \E w \in Workers :
          LET key == tc_workers[w].key IN
          /\ tc_workers[w].pc = "get_count"
          /\ access_count' =
                SetCount(access_count, key,
                         IF key \in CountKeys(access_count)
                         THEN CountOf(access_count, key) + 1 ELSE 1)
          /\ Moved(w, "get_return", key, 0, "none")
    /\ UNCHANGED << tc_cache, tc_calls, notCacheVars >>

\* get: return self.cache[key]
CacheGetReturn ==
    /\ \E w \in Workers :
          LET key == tc_workers[w].key IN
          /\ tc_workers[w].pc = "get_return"
          /\ Moved(w, "idle", key, 0,
                   IF key \in tc_cache THEN "get_ok" ELSE "get_KeyError")
    /\ UNCHANGED << tc_cache, access_count, tc_calls, notCacheVars >>

\* set: "if len(self.cache) >= self.max_size"
CacheSetCheck ==
    /\ tc_calls < MaxCacheCalls
    /\ \E w \in Workers, key \in CacheKeys :
          /\ tc_workers[w].pc = "idle"
          /\ Moved(w, IF Cardinality(tc_cache) >= MaxSize
                      THEN "set_least" ELSE "set_cache", key, 0, "none")
    /\ tc_calls' = tc_calls + 1
    /\ UNCHANGED << tc_cache, access_count, notCacheVars >>

\* set: least_used = min(...); min() of no entries raises ValueError
CacheSetLeastUsed ==
    /\ \E w \in Workers :
          LET key == tc_workers[w].key IN
          /\ tc_workers[w].pc = "set_least"
          /\ IF access_count = << >>
             THEN Moved(w, "idle", key, 0, "set_ValueError")
             ELSE Moved(w, "set_del_cache", key, LeastUsed(access_count), "none")
    /\ UNCHANGED << tc_cache, access_count, tc_calls, notCacheVars >>

\* set: del self.cache[least_used[0]]
CacheSetDelCache ==
    /\ \E w \in Workers :
          LET wk == tc_workers[w] IN
          /\ wk.pc = "set_del_cache"
          /\ IF wk.least \in tc_cache
             THEN /\ tc_cache' = tc_cache \ { wk.least }
                  /\ Moved(w, "set_del_count", wk.key, wk.least, "none")
             ELSE /\ Moved(w, "idle", wk.key, wk.least, "set_KeyError")
                  /\ UNCHANGED tc_cache
    /\ UNCHANGED << access_count, tc_calls, notCacheVars >>

\* set: del self.access_count[least_used[0]]
CacheSetDelCount ==
    /\ \E w \in Workers :
          LET wk == tc_workers[w] IN
          /\ wk.pc = "set_del_count"
          /\ IF wk.least \in CountKeys(access_count)
             THEN /\ access_count' = DelCount(access_count, wk.least)
                  /\ Moved(w, "set_cache", wk.key, wk.least, "none")
             ELSE /\ Moved(w, "idle", wk.key, wk.least, "set_KeyError")
                  /\ UNCHANGED access_count
    /\ UNCHANGED << tc_cache, tc_calls, notCacheVars >>

\* set: self.cache[key] = result
CacheSetCache ==
    /\ \E w \in Workers :
          LET wk == tc_workers[w] IN
          /\ wk.pc = "set_cache"
          /\ tc_cache' = tc_cache \cup { wk.key }
          /\ Moved(w, "set_count", wk.key, wk.least, "none")
    /\ UNCHANGED << access_count, tc_calls, notCacheVars >>

\* set: self.access_count[key] = 1
CacheSetCount ==
    /\ \E w \in Workers :
          LET wk == tc_workers[w] IN
          /\ wk.pc = "set_count"
          /\ access_count' = SetCount(access_count, wk.key, 1)
          /\ Moved(w, "idle", wk.key, wk.least, "set_ok")
    /\ UNCHANGED << tc_cache, tc_calls, notCacheVars >>

\* ------------------------------------------------------- specifications
InitRoute ==
    /\ \E coords \in SeqsUpTo(RoutePoints, MaxRoute) : RouteInitVars(coords, "loop")
    /\ SegInitVars(<< L_BLANK >>, "idle")
    /\ FirInitVars(<< >>, << >>, << >>, "idle")
    /\ XlInitVars("idle")
    /\ TimeInitVars(NoCsvFile, "winter")
    /\ PkgInitVars("idle")
    /\ UprInitVars(<< >>, "idle")
    /\ CacheInitVars

NextRoute ==
    \/ RouteStep
    \/ RouteFinish

SpecRoute == InitRoute /\ [][NextRoute]_vars

Bulletins == UNION { [1..k -> BulletinLines] : k \in 1..MaxLines }

InitSeg ==
    /\ \E txt \in Bulletins : SegInitVars(txt, "detect")
    /\ RouteInitVars(<< >>, "idle")
    /\ FirInitVars(<< >>, << >>, << >>, "idle")
    /\ XlInitVars("idle")
    /\ TimeInitVars(NoCsvFile, "winter")
    /\ PkgInitVars("idle")
    /\ UprInitVars(<< >>, "idle")
    /\ CacheInitVars

NextSeg ==
    \/ SegDetect
    \/ PackageMerge
    \/ AirportReadLine
    \/ AirportFinish
    \/ PackageReadLine
    \/ PackageFinish

SpecSeg == InitSeg /\ [][NextSeg]_vars

\* Coordinate lists of parsed routes: none, one FIR, two FIRs.
FirRoutes ==
    { << >>, << P_N46E170 >>, << P_N44E160 >>, << P_S30E170, P_N46E170 >> }

RouteWaypoints == { EGOBA, LANAT, ORNAI, TOU, KSEA }

\* NOTAM records: an Incheon NOTAM, a Seattle NOTAM that mentions ORNAI, an
\* Auckland NOTAM known by airport_code only, and a second Incheon record
\* with the number and airports of the first that mentions EGOBA.
NotamRecords ==
    { [ notam_number |-> "Z0582/25", airports |-> << RKSI >>,
        airport_code |-> << >>, description |-> << CLSD >> ],
      [ notam_number |-> "A1234/25", airports |-> << KSEA >>,
        airport_code |-> << >>, description |-> << ORNAI, CLSD >> ],
      [ notam_number |-> "B0001/25", airports |-> << >>,
        airport_code |-> NZAA, description |-> << >> ],
      [ notam_number |-> "Z0582/25", airports |-> << RKSI >>,
        airport_code |-> << >>, description |-> << EGOBA >> ] }

InitFir ==
    /\ \E coords \in FirRoutes, wps \in SeqsUpTo(RouteWaypoints, MaxWaypoints),
          data \in SeqsUpTo(NotamRecords, MaxNotams) :
            FirInitVars(coords, wps, data, "analyze")
    /\ RouteInitVars(<< >>, "idle")
    /\ SegInitVars(<< L_BLANK >>, "idle")
    /\ XlInitVars("idle")
    /\ TimeInitVars(NoCsvFile, "winter")
    /\ PkgInitVars("idle")
    /\ UprInitVars(<< >>, "idle")
    /\ CacheInitVars

NextFir ==
    \/ FirAnalyzeRoute
    \/ FirFilterStep
    \/ FirFilterDone
    \/ WaypointFilterStep
    \/ FirReturn

SpecFir == InitFir /\ [][NextFir]_vars

InitXlate ==
    /\ XlInitVars("ready")
    /\ RouteInitVars(<< >>, "idle")
    /\ SegInitVars(<< L_BLANK >>, "idle")
    /\ FirInitVars(<< >>, << >>, << >>, "idle")
    /\ TimeInitVars(NoCsvFile, "winter")
    /\ PkgInitVars("idle")
    /\ UprInitVars(<< >>, "idle")
    /\ CacheInitVars

\* One request served by a newly constructed translator.
NextPool ==
    \/ XlRequest
    \/ TaskEnglishStage
    \/ TaskKoreanStage
    \/ ParallelTaskRun
    \/ XlReturn

SpecPool == InitXlate /\ [][NextPool]_vars

\* Successive requests served by the same translator.
NextXlate ==
    \/ XlRequest
    \/ XlNextRequest
    \/ TaskEnglishStage
    \/ TaskKoreanStage
    \/ ParallelTaskRun
    \/ XlReturn

SpecXlate == InitXlate /\ [][NextXlate]_vars

InitTime ==
    /\ \E file \in CsvFiles, season \in Seasons : TimeInitVars(file, season)
    /\ RouteInitVars(<< >>, "idle")
    /\ SegInitVars(<< L_BLANK >>, "idle")
    /\ FirInitVars(<< >>, << >>, << >>, "idle")
    /\ XlInitVars("idle")
    /\ PkgInitVars("idle")
    /\ UprInitVars(<< >>, "idle")
    /\ CacheInitVars

NextTime ==
    \/ TimeParseSection
    \/ TimeBuildRecord
    \/ TimeAppFormat
    \/ TimeFormatCall
    \/ TimeResolveOffset

SpecTime == InitTime /\ [][NextTime]_vars

\* Successive uploads served by the module-level NOTAMFilter of app.py.
InitPkg ==
    /\ PkgInitVars("ready")
    /\ RouteInitVars(<< >>, "idle")
    /\ SegInitVars(<< L_BLANK >>, "idle")
    /\ FirInitVars(<< >>, << >>, << >>, "idle")
    /\ XlInitVars("idle")
    /\ TimeInitVars(NoCsvFile, "winter")
    /\ UprInitVars(<< >>, "idle")
    /\ CacheInitVars

NextPkg ==
    \/ UploadFilterFirst
    \/ UploadExtractAirports
    \/ UploadFilterAgain

SpecPkg == InitPkg /\ [][NextPkg]_vars

\* parse_route_with_waypoints on a route text of up to MaxRoute tokens
InitUpr ==
    /\ \E segments \in SeqsUpTo(RouteTokens, MaxRoute) : UprInitVars(segments, "loop")
    /\ CacheInitVars
    /\ RouteInitVars(<< >>, "idle")
    /\ SegInitVars(<< L_BLANK >>, "idle")
    /\ FirInitVars(<< >>, << >>, << >>, "idle")
    /\ XlInitVars("idle")
    /\ TimeInitVars(NoCsvFile, "winter")
    /\ PkgInitVars("idle")

NextUpr ==
    \/ UprParseSegment
    \/ UprReturn

SpecUpr == InitUpr /\ [][NextUpr]_vars

\* A newly constructed TranslationCache used by the workers of one pool.
InitCache ==
    /\ CacheInitVars
    /\ RouteInitVars(<< >>, "idle")
    /\ SegInitVars(<< L_BLANK >>, "idle")
    /\ FirInitVars(<< >>, << >>, << >>, "idle")
    /\ XlInitVars("idle")
    /\ TimeInitVars(NoCsvFile, "winter")
    /\ PkgInitVars("idle")
    /\ UprInitVars(<< >>, "idle")

NextCache ==
    \/ CacheGetCheck
    \/ CacheGetCount
    \/ CacheGetReturn
    \/ CacheSetCheck
    \/ CacheSetLeastUsed
    \/ CacheSetDelCache
    \/ CacheSetDelCount
    \/ CacheSetCache
    \/ CacheSetCount

SpecCache == InitCache /\ [][NextCache]_vars


\* ================================================================ claims
\* ------------------------------------------------------------ claim C1
\* All returned segments, over every FIR key.
AllSegments == UNION { Range(fir_segments[f]) : f \in DOMAIN fir_segments }

SegmentsOf(f) == IF f \in DOMAIN fir_segments THEN Range(fir_segments[f]) ELSE {}

CoveringSegments(k) ==
    { s \in AllSegments : s.start_index <= k /\ k <= s.end_index }

CoordFir(k) == identify_fir_by_coordinate(upr_coordinates[k + 1])

PlacedNums ==
    Range(NumsOf(current_notam))
        \cup UNION { Range(notam_sections[b].nums) : b \in 1..Len(notam_sections) }

\* A line the variant's NOTAM-start patterns accept.
IsStartLine(l) ==
    IF variant = "package" THEN l \in PackageNewNotamLines
    ELSE l \in AirportNotamStartLines

\* A line one of the variant's section-end patterns accepts (and that is not
\* also a NOTAM-start line).
IsMarkerLine(l) ==
    /\ ~IsStartLine(l)
    /\ IF variant = "package"
       THEN l \in PackageRuleLines \cup PackageSectionEndLines
       ELSE l \in EndOfPackageLines \cup NoCurrentNotamsLines \cup SecyLines
                    \cup CompanyAdvisoryLines \cup AirportSectionEndLines

EntryPos(n) == CHOOSE j \in 1..Len(lines) : lines[j].num = n

\* Among the first p entries a marker was read and no NOTAM start after it.
AfterMarker(p) ==
    \E m \in 1..p :
        /\ IsMarkerLine(lines[m].line)
        /\ \A k \in (m + 1)..p : ~IsStartLine(lines[k].line)

PlacedAfterMarker ==
    { n \in PlacedNums :
        /\ AfterMarker(EntryPos(n) - 1)
        /\ ~IsStartLine(lines[EntryPos(n)].line) }

\* C2 (as stated): in the airport and in the package variant, a line read
\* after a section-end marker and before the next NOTAM-start line is never
\* placed in a block.
C2_NothingPlacedAfterMarker ==
    s_pc \in { "split", "done" } => PlacedAfterMarker = {}

\* C2 (amended): in the airport variant, a line read after a section-end
\* marker and before the next NOTAM-start line is never placed in a block.
\* (The package variant has no skipping state: it goes on accumulating.)
C2_AirportNothingPlacedAfterMarker ==
    (s_pc \in { "split", "done" } /\ variant = "airport")
        => PlacedAfterMarker = {}

\* Witness: the airport variant has returned a block, and a line that is
\* neither marker nor start was read after a marker and left out.
C2_Witness ==
    /\ s_pc = "done" /\ variant = "airport"
    /\ notam_sections # << >>
    /\ \E j \in 2..Len(lines) :
          /\ AfterMarker(j - 1)
          /\ ~IsStartLine(lines[j].line) /\ ~IsMarkerLine(lines[j].line)
          /\ lines[j].num \notin PlacedNums

\* C3 (as stated): whenever the airport segmenter is skipping, no accumulated
\* line is waiting to be emitted.
C3_SkippingHoldsNoLines ==
    (s_pc = "split" /\ variant = "airport" /\ skip_mode) => current_notam = << >>

\* Markers at which the airport variant emits, and those at which it does not.
IsEmittingMarker(l) ==
    \/ l \in EndOfPackageLines \cup NoCurrentNotamsLines
    \/ /\ l \notin SecyLines \cup CompanyAdvisoryLines \cup AirportNotamStartLines
       /\ l \in AirportSectionEndLines

IsRetainingMarker(l) ==
    /\ l \notin EndOfPackageLines \cup NoCurrentNotamsLines
    /\ l \in SecyLines \cup CompanyAdvisoryLines

\* C3 (amended): in the airport variant, outside skipping, an END OF PACKAGE /
\* NO CURRENT NOTAMS FOUND / section_end_patterns line emits the accumulated
\* block at that line and enters skipping; a SECY or COMPANY ADVISORY line
\* enters skipping and keeps the accumulated lines, which are emitted at the
\* next NOTAM start or at the end of input; while skipping continues nothing
\* is accumulated or emitted.
C3_EmitOrRetainOnMarker ==
    [][ (s_pc = "split" /\ variant = "airport" /\ pos' = pos + 1) =>
          LET l == lines[pos + 1].line
          IN  /\ (~skip_mode /\ IsEmittingMarker(l)) =>
                    /\ skip_mode'
                    /\ current_notam' = << >>
                    /\ notam_sections' =
                         IF current_notam = << >> THEN notam_sections
                         ELSE Append(notam_sections, Block(current_notam))
              /\ (~skip_mode /\ IsRetainingMarker(l)) =>
                    /\ skip_mode'
                    /\ current_notam' = current_notam
                    /\ notam_sections' = notam_sections
              /\ (skip_mode /\ skip_mode') =>
                    /\ current_notam' = current_notam
                    /\ notam_sections' = notam_sections
      ]_vars

\* Witness: a SECY or COMPANY ADVISORY line has just put the segmenter in
\* skipping with lines still accumulated.
C3_Witness ==
    /\ s_pc = "split" /\ variant = "airport"
    /\ skip_mode /\ current_notam # << >>
    /\ IsRetainingMarker(lines[pos].line)

\* C4: in the airport variant no line of a SECY or company-advisory section
\* (a line the SECY or COMPANY ADVISORY patterns accept, numbered dated item
\* lines included) is ever part of a block.
C4_NoSecyOrAdvisoryLinePlaced ==
    (s_pc \in { "split", "done" } /\ variant = "airport") =>
        \A n \in PlacedNums :
            text[n] \notin SecyLines \cup CompanyAdvisoryLines

\* C5: segmenting, rejoining the blocks with newlines and segmenting again
\* (with the same variant) gives the same list of blocks.
Resegmented ==
    IF variant = "package"
    THEN PackageSections(RejoinedText(BlockTexts(notam_sections)))
    ELSE AirportSections(RejoinedText(BlockTexts(notam_sections)))

C5_ResegmentingReproducesBlocks ==
    s_pc = "done" => Resegmented = BlockTexts(notam_sections)

RECURSIVE SumBlockLen(_)
SumBlockLen(bs) ==
    IF bs = << >> THEN 0 ELSE JoinedLen(bs[1].lines) + SumBlockLen(Tail(bs))

\* C6: when segmentation has returned (either variant), the block lengths
\* sum to at most the length of the input text, and no line number occurs
\* twice in the blocks.
C6_BlocksNoLongerThanInput ==
    s_pc = "done" =>
        /\ SumBlockLen(notam_sections) <= JoinedLen(text)
        /\ \A a, b \in 1..Len(notam_sections) :
              a # b => Range(notam_sections[a].nums)
                           \cap Range(notam_sections[b].nums) = {}
        /\ \A b \in 1..Len(notam_sections) :
              Cardinality(Range(notam_sections[b].nums))
                  = Len(notam_sections[b].nums)

\* Witness: a package bulletin whose NOTAM-number line and date line were
\* merged into the start line of a returned block.
C6_Witness ==
    /\ s_pc = "done" /\ variant = "package"
    /\ L_START \notin Range(text)
    /\ \E b \in 1..Len(notam_sections) : notam_sections[b].lines[1] = L_START

\* --------------------------------------------------------- claim C7
\* Number of records of a list that carry the given id.
Occurrences(id, notams) ==
    Cardinality({ k \in 1..Len(notams) : NotamId(notams[k]) = id })

\* C7: when analyze_route_with_fir_notams has returned, no (notam_number,
\* airports) combination occurs twice in a list of the result: not in the
\* FIR list of any traversed FIR and not in waypoint_notams.
C7_EachCombinationOnce ==
    f_pc = "done" =>
        /\ \A f \in DOMAIN fir_notams :
              \A k \in 1..Len(fir_notams[f]) :
                 Occurrences(NotamId(fir_notams[f][k]), fir_notams[f]) = 1
        /\ \A k \in 1..Len(waypoint_notams) :
              Occurrences(NotamId(waypoint_notams[k]), waypoint_notams) = 1

\* ----------------------------------------------------- claims C8-C10
\* The input fields of a returned record are those of the given input record
\* (the error record of process_notams_parallel has notam_number 'UNKNOWN').
IsResultFor(res, notam) ==
    /\ res # NoResult
    /\ res.airport_code = notam.airport_code
    /\ res.original_text = notam.original_text
    /\ res.internal_id = notam.internal_id
    /\ res.notam_number \in { notam.notam_number, "UNKNOWN" }

\* C8: when an entry point (process_notams_individual or
\* process_notams_parallel) has returned, the list has one element per input
\* record and its i-th element is the result for the i-th input record.
C8_ResultsInInputOrder ==
    x_pc = "done" =>
        /\ Len(x_results) = Len(x_notams)
        /\ \A i \in 1..Len(x_results) : IsResultFor(x_results[i], x_notams[i])

\* The four failure sentinel values of _create_fallback_result.
CarriesSentinels(res) ==
    /\ res.korean_translation = KoreanTranslationFailed
    /\ res.korean_summary = KoreanSummaryFailed
    /\ res.english_translation = EnglishTranslationFailed
    /\ res.english_summary = EnglishSummaryFailed

\* C9: when process_notams_individual has returned, the list has exactly one
\* element per input record, in each position the result its task returned;
\* the record of a task in which an exception was raised is the input
\* record carrying the four failure sentinel values, and the record of a task
\* whose collaborator call raised is the input record with the error noted in
\* a summary, whatever happened to the other tasks.
C9_FailureIsolated ==
    (x_pc = "done" /\ x_entry = "individual") =>
        /\ Len(x_results) = Len(x_notams)
        /\ \A i \in 1..Len(x_notams) :
              /\ x_tasks[i].st = "returned"
              /\ x_results[i] = x_tasks[i].result
              /\ x_results[i] # NoResult
              /\ x_tasks[i].failed = "raised" =>
                    /\ IsResultFor(x_results[i], x_notams[i])
                    /\ CarriesSentinels(x_results[i])
                    /\ x_results[i].e_section = ESection(x_notams[i])
              /\ x_tasks[i].failed = "api" =>
                    /\ IsResultFor(x_results[i], x_notams[i])
                    /\ \/ x_results[i].english_summary = ProcessingErrorSummary
                       \/ x_results[i].korean_summary = ProcessingErrorSummary

\* Witness: a returned batch of two records, one task failed by an exception
\* and carries the sentinels, the sibling was translated.
C9_Witness ==
    /\ x_pc = "done" /\ x_entry = "individual"
    /\ Len(x_notams) = 2
    /\ \E i, j \in 1..2 :
          /\ x_tasks[i].failed = "raised"
          /\ CarriesSentinels(x_results[i])
          /\ x_tasks[j].failed = "no"
          /\ ~CarriesSentinels(x_results[j])
          /\ IsResultFor(x_results[j], x_notams[j])

\* C10: while the tasks of a request run in the worker pool, the translator's
\* shared cache is not written.
C10_TasksWriteNoSharedObject ==
    [][ (x_pc = "running" /\ x_pc' = "running") => cache' = cache ]_vars

\* ------------------------------------------------------------------- C14
\* C14: the route N44E160 N46E170 N49E180, once analysed, has all three
\* points attributed to KZAK and exactly one segment, from index 0 to 2.
C14_Route == << P_N44E160, P_N46E170, P_N49E180 >>

C14_OneKzakSegment ==
    (r_pc = "done" /\ upr_coordinates = C14_Route) =>
        /\ \A k \in 1..3 : r_coordinates[k].fir = "KZAK"
        /\ traversed_firs = << "KZAK" >>
        /\ DOMAIN fir_segments = { "KZAK" }
        /\ Len(fir_segments["KZAK"]) = 1
        /\ fir_segments["KZAK"][1].start_index = 0
        /\ fir_segments["KZAK"][1].end_index = 2

\* ------------------------------------------------------------------- C15
\* Longitudes of a boundary at or east of Greenwich / west of it.
PositiveLons(boundary) == { x \in Range(Lons(boundary)) : x > 0 }
NegativeLons(boundary) == { x \in Range(Lons(boundary)) : x < 0 }

Straddles(boundary) ==
    SeqMin(Lons(boundary)) < 0 /\ SeqMax(Lons(boundary)) > 0

SetMin(S) == CHOOSE x \in S : \A y \in S : x <= y
SetMax(S) == CHOOSE x \in S : \A y \in S : x >= y

InEastOrWestComponent(point, boundary) ==
    /\ SeqMin(Lats(boundary)) <= point[1] /\ point[1] <= SeqMax(Lats(boundary))
    /\ \/ (SetMin(PositiveLons(boundary)) <= point[2] /\ point[2] <= 648000)
       \/ (-648000 <= point[2] /\ point[2] <= SetMax(NegativeLons(boundary)))

\* C15: for a boundary that straddles the antimeridian the box test accepts
\* a classified point only if it lies in the latitude extent and in the east
\* component (smallest positive longitude .. 180) or in the west component
\* (-180 .. largest negative longitude).
C15_StraddlingBoxIsTwoComponents ==
    \A k \in 1..r_i : \A f \in Range(FirOrder) :
        (Straddles(fir_boundaries[f])
         /\ IsPointInFirBoundaryBox(upr_coordinates[k], fir_boundaries[f]))
        => InEastOrWestComponent(upr_coordinates[k], fir_boundaries[f])

\* ------------------------------------------------------------------- C16
FirOfPoint(p) ==
    { r_coordinates[k].fir : k \in { j \in 1..Len(r_coordinates) : upr_coordinates[j] = p } }

\* C16: (50.0, 179.9) and (50.0, -179.9) are classified into the same FIR.
C16_SameFirAcrossAntimeridian ==
    \A a \in FirOfPoint(P_N50E1799) : \A b \in FirOfPoint(P_N50W1799) :
        a = b /\ a # NONE

C16_Witness ==
    /\ r_pc = "done"
    /\ FirOfPoint(P_N50E1799) # {}
    /\ FirOfPoint(P_N50W1799) # {}

\* ------------------------------------------------------------------- C11
RecordBuilt == t_pc \in { "built", "idle" } /\ notam_dict # NoRecord

\* C11: a block whose header gives the expiry as UFN or PERM yields a record
\* whose expiry_time is that literal.
C11_SentinelPreserved ==
    RecordBuilt =>
        /\ (t_block.kind = "UFN" => notam_dict.expiry_time = UFN)
        /\ (t_block.kind = "PERM" => notam_dict.expiry_time = PERM)

\* ------------------------------------------------------------------- C12
\* C12: for an effective time and the expiry 'UFN' or 'PERM' the formatter
\* returns '<MM/DD HH:MM> - <sentinel> (<offset>)', never an empty result.
C12_SentinelRendered ==
    (fmt_call.effective_time # << >> /\ fmt_call.expiry_time \in { UFN, PERM }) =>
        /\ fmt_call.result # << >>
        /\ Len(fmt_call.result) > 11
        /\ PyFrom(fmt_call.result, 11) =
              << " ", "-", " " >> \o fmt_call.expiry_time \o << " ", "(" >>
              \o fmt_call.timezone_offset \o << ")" >>

\* ------------------------------------------------------------------- C13
\* C13: a record has effective_time and expiry_time both present or both
\* absent.
C13_BothTimesOrNeither ==
    RecordBuilt =>
        ((notam_dict.effective_time = << >>) <=> (notam_dict.expiry_time = << >>))

\* ------------------------------------------------------------------- C17
LiveValue(code, use_api, api) ==
    IF use_api THEN get_utc_offset_api(code, api) ELSE << >>

CsvHasRow(code) == csv_file.readable /\ code \in DOMAIN csv_file.rows

\* the first source, in the stated order, that yields a non-default value
FirstSource(code, use_api, api) ==
    IF LiveValue(code, use_api, api) \notin { << >>, UTC_ZERO } THEN "live"
    ELSE IF get_timezone_by_fir_pattern(code, is_dst_active(now)) # UTC_ZERO THEN "pattern"
    ELSE IF CsvHasRow(code) THEN "csv"
    ELSE IF utc_offsets(code[1]) # UTC_ZERO THEN "letter"
    ELSE "default"

\* C17: every resolution returns the value of the first source, in the order
\* live lookup, prefix pattern table, CSV table, letter table, default, that
\* yields one.
C17_FirstSourceWins ==
    /\ tz_call # NoOffsetCall =>
          tz_call.source = FirstSource(tz_call.icao_code, tz_call.use_api, tz_call.api)
    /\ \A c \in DOMAIN timezone_cache :
          timezone_cache[c].source = FirstSource(c, FALSE, ApiFailure)

\* ------------------------------------------------------------------- C18
\* C18: every offset get_timezone returns has the form sign, two digits,
\* colon, two digits.
C18_OffsetForm ==
    \A c \in DOMAIN timezone_cache : OffsetForm(timezone_cache[c].result)

\* ------------------------------------------------------------------- C19
\* C19: the time-zone CSV is read at most once.
C19_CsvReadOnce == csv_reads <= 1

\* ------------------------------------------------------------------- C20
\* what the same upload returns from a newly constructed NOTAMFilter
FreshUpload(t) ==
    filter_korean_air_notams(t,
        extract_package_airports(t,
            AirportsOf(filter_korean_air_notams(t, DefaultAirportOrder)),
            DefaultAirportOrder))

\* C20: the records an upload returns depend only on its own text: they are
\* the records a newly constructed filter returns for that text, whatever
\* earlier uploads wrote.
C20_RecordsDependOnInputOnly ==
    p_pc = "done" => p_notams = FreshUpload(p_text)

\* ------------------------------------------------------------------- C30
\* C30: outside the daylight-saving months the offset returned for a
\* DST-region airport with a CSV row is the CSV offset moved one hour back,
\* for west-of-UTC and east-of-UTC offsets alike.
C30_StandardTimeOneHourBack ==
    \A c \in DOMAIN timezone_cache :
        ( /\ c[1] \in { "K", "C", "E", "L" }
          /\ c \in DOMAIN airports_data
          /\ ~SimpleDstActive(now)
          /\ OffsetDelta(airports_data[c]) # Raised
          /\ OffsetDelta(airports_data[c]).minutes # 0 ) =>
            /\ OffsetDelta(timezone_cache[c].result) # Raised
            /\ OffsetDelta(timezone_cache[c].result).minutes
                 = OffsetDelta(airports_data[c]).minutes - 60

\* ------------------------------------------------------------------- C25
SouthernDstPrefixes == { << "Y", "S" >>, << "Y", "M" >> }

\* C25: for the Southern-Hemisphere prefixes of the pattern table the
\* daylight-saving offset (UTC+11) is returned exactly when daylight saving
\* is inactive for the US prefixes.
C25_SouthernDstInverted ==
    ( /\ tz_call # NoOffsetCall
      /\ tz_call.source = "pattern"
      /\ SubSeq(tz_call.icao_code, 1, 2) \in SouthernDstPrefixes ) =>
        ((tz_call.result = UtcPlus(11)) <=> ~is_dst_active(now))

\* ------------------------------------------------------------------- C29
ListedFirs == { fir_airport_mapping[m].fir : m \in 1..Len(fir_airport_mapping) }

ListedPrefixes == UNION { fir_airport_mapping[m].prefixes : m \in 1..Len(fir_airport_mapping) }

\* The lookup reads the whole code only for the specific airports and the
\* first two letters otherwise: these codes cover every outcome.
CandidateCodes ==
    { p \o << a, b >> : p \in ListedPrefixes, a \in { "A", "K", "Z" }, b \in { "A", "I", "K" } }
        \cup DOMAIN specific_airport_mapping

\* C29: every FIR of the prefix table for which NOTAMs were filtered has an
\* airport code that the airport-to-FIR lookup maps to it.
C29_EveryListedFirHasAnAirport ==
    \A f \in DOMAIN fir_notams :
        f \in ListedFirs =>
            \E code \in CandidateCodes : get_fir_from_airport_code(code) = f

\* ------------------------------------------------------------------- C23
\* C23: a route token of exactly four upper-case letters is recorded in
\* full_route with type 'airport'.
C23_FourLettersIsAirport ==
    \A k \in 1..Len(u_result.full_route) :
        IsAirportCode(u_result.full_route[k].value) =>
            u_result.full_route[k].type = "airport"

\* ------------------------------------------------------------------- C22
\* C22: a route waypoint without a coordinate in the gazetteer is given an
\* approximate FIR by the coarse estimator and reported in waypoint_firs,
\* marked as estimated.
C22_EstimatedWhenNoCoordinate ==
    f_pc = "done" =>
        \A k \in 1..Len(f_waypoints) :
            get_waypoint_coordinates(f_waypoints[k]) = << >> =>
                /\ f_waypoints[k] \in DOMAIN waypoint_fir_analysis.waypoint_firs
                /\ waypoint_fir_analysis.waypoint_firs[f_waypoints[k]].estimated

\* ------------------------------------------------------------------- C28
\* The airport segmenter took entry k as the start of a NOTAM: the entry
\* opened a block of its own.
TreatedAsStart(k) ==
    AirportLine(FoldLines("airport", SegState0, SubSeq(lines, 1, k - 1), 1),
                lines[k]).current = << lines[k] >>

BlocksMatchTreatedStarts ==
    s_pc = "done" =>
        Len(notam_sections)
           = Cardinality({ k \in 1..Len(lines) : TreatedAsStart(k) })

\* C28 (as stated): in the airport variant the first line of every emitted
\* block is a NOTAM-start line and no other line of the block is one, and
\* when the segmenter is done the number of blocks is the number of lines it
\* took as NOTAM starts.
C28_OneStartLinePerBlock ==
    (variant = "airport" /\ s_pc \in { "split", "done" }) =>
        /\ \A b \in 1..Len(notam_sections) :
              LET block == notam_sections[b].lines IN
              /\ block[1] \in AirportNotamStartLines
              /\ \A j \in 2..Len(block) : block[j] \notin AirportNotamStartLines
        /\ BlocksMatchTreatedStarts

\* C28 (amended): in the airport variant every emitted block was built from
\* exactly one input line that matched a NOTAM-start pattern when it was
\* read, that line is the block's first, and when the segmenter is done the
\* number of blocks is the number of lines it took as NOTAM starts.
C28_OneStartLineReadPerBlock ==
    (variant = "airport" /\ s_pc \in { "split", "done" }) =>
        /\ \A b \in 1..Len(notam_sections) :
              LET nums == notam_sections[b].nums IN
              /\ lines[nums[1]].line \in AirportNotamStartLines
              /\ \A j \in 2..Len(nums) :
                    lines[nums[j]].line \notin AirportNotamStartLines
        /\ BlocksMatchTreatedStarts

\* Two blocks were emitted; the last line of one of them matched no start
\* pattern when read and matches one in the emitted text.
C28_Witness ==
    /\ variant = "airport" /\ s_pc = "done"
    /\ Len(notam_sections) = 2
    /\ \E b \in 1..2 :
          LET blk == notam_sections[b] IN
          /\ Len(blk.nums) = 2 /\ Len(blk.lines) = 2
          /\ lines[blk.nums[2]].line \notin AirportNotamStartLines
          /\ blk.lines[2] \in AirportNotamStartLines

C21_RecordsKeepTheirFields ==
    \A i \in DOMAIN x_notams : x_notams[i] \in XRecords

\* C26: whatever calls the translator has served before, the record
\* process_single_notam_complete returns for a record r carries r's
\* notam_number and airport_code and the translations of r's own text,
\* never the result computed for another NOTAM.
C26_ResultIsForTheGivenRecord ==
    \A i \in DOMAIN x_tasks :
        (x_entry = "individual" /\ x_tasks[i].st = "returned") =>
            /\ x_tasks[i].result # NoResult
            /\ x_tasks[i].result.notam_number = x_notams[i].notam_number
            /\ x_tasks[i].result.airport_code = x_notams[i].airport_code
            /\ x_tasks[i].result.e_section = ESection(x_notams[i])

\* C27: whatever the interleaving of the workers' get and set calls, no call
\* of TranslationCache.set ends in an exception, and whenever no call is in
\* progress the cache holds at most max_size entries and cache and
\* access_count have the same keys.
C27_SetSafeUnderInterleaving ==
    /\ \A w \in Workers :
          tc_workers[w].last \notin { "set_KeyError", "set_ValueError" }
    /\ (\A w \in Workers : tc_workers[w].pc = "idle") =>
          /\ Cardinality(tc_cache) <= MaxSize
          /\ tc_cache = CountKeys(access_count)

====
